---- MODULE Spec2Model ----
(***************************************************************************)
(* A model of the notnews classification pipeline:                         *)
(*   - the URL pattern matcher      (classifiers.classify_by_url)          *)
(*   - the model loader and cache   (classifiers._load_model,              *)
(*                                   pred_soft_news.SoftNewsModel)         *)
(*   - the prediction engine        (classifiers.predict_soft_news,        *)
(*                                   classifiers.predict_news_category)    *)
(*   - the LLM classification loop  (llm.classify_news)                    *)
(* Each component has its own specification (SpecUrl, SpecStat, SpecLLM);  *)
(* the variables of the other components stay at their initial values.     *)
(***************************************************************************)
EXTENDS Integers, Sequences, FiniteSets, TLC

VARIABLES
  url_df,        \* classify_by_url: the url column of the input DataFrame
  url_col_ok,    \* classify_by_url: url_col is a column of df
  url_region,    \* classify_by_url: the region argument
  url_pc,        \* "ready" | "returned" | "raised"
  url_result,    \* the hard_news / soft_news columns of result_df, one record per row
  url_searched   \* per row, the number of regex searches run on it

urlVars == <<url_df, url_col_ok, url_region, url_pc, url_result, url_searched>>

VARIABLES
  fs,            \* the local artifact files: "absent" | "ok" | "partial"
  _model_cache,  \* classifiers._model_cache: the regions that hold a loaded pair
  loads,         \* per artifact file, the number of joblib.load calls made on it
  stat_calls,    \* calls of the statistical path made so far in this process
  all_ok,        \* every call so far was a predict_* call that returned normally
  stat_last      \* what the last call did (operation, input, outcome, result)

statVars == <<fs, _model_cache, loads, stat_calls, all_ok, stat_last>>

VARIABLES
  llm_text,        \* classify_news: the text column of the input DataFrame
  llm_col_ok,      \* text_col is a column of df
  llm_provider,    \* the provider argument
  llm_has_key,     \* an API key was passed or is set in the environment
  llm_has_pkg,     \* HAS_ANTHROPIC / HAS_OPENAI of the selected provider
  llm_pc,          \* "ready" | "loop" | "returned" | "raised"
  llm_error,       \* the exception classify_news raised, "" if none
  llm_idx,         \* the row the loop is at, 0 outside the loop
  llm_depth,       \* recursion depth of the classify function for this row
  llm_category,    \* result_df["llm_category"]
  llm_confidence,  \* result_df["llm_confidence"]
  llm_reasoning,   \* result_df["llm_reasoning"]
  llm_calls,       \* per row, the number of provider calls made for it
  llm_status,      \* per row: "skipped" | "pending" | "classified" | "failed"
  llm_source,      \* per row, the parsed result its columns were written from
  llm_written,     \* per row, the result columns the loop has stored into
  llm_event        \* what the last step of the loop did

llmVars ==
  <<llm_text, llm_col_ok, llm_provider, llm_has_key, llm_has_pkg, llm_pc, llm_error,
    llm_idx, llm_depth, llm_category, llm_confidence, llm_reasoning, llm_calls,
    llm_status, llm_source, llm_written, llm_event>>

VARIABLES
  parse_in,      \* _parse_llm_response: the response_text argument
  parse_out      \* what the call returned or raised, NoResult before the call

parseVars == <<parse_in, parse_out>>

VARIABLES
  trunc_fn,          \* which truncation function is called
  trunc_text,        \* its text argument, a sequence of characters
  trunc_max_tokens,  \* its max_tokens argument
  trunc_out          \* the string it returned, None before the call

truncVars == <<trunc_fn, trunc_text, trunc_max_tokens, trunc_out>>

VARIABLES
  clean_fn,        \* "utils" or "normalizer": which clean_text is called
  clean_in,        \* its argument: None or V(text)
  clean_has_nltk,  \* utils.HAS_NLTK
  clean_fail,      \* the NLTK step that raises during this call, "none" if none does
  clean_out        \* what the call returned or raised, NoResult before the call

cleanVars == <<clean_fn, clean_in, clean_has_nltk, clean_fail, clean_out>>

VARIABLES
  legacy_model     \* per legacy class, the class attribute model: "None" or "loaded"

legacyVars == <<legacy_model>>

VARIABLES
  race_region,     \* the region both threads load
  race_pc,         \* per thread, its position in _load_model
  race_chunk,      \* per thread, the chunks it has written of the file it downloads
  race_file,       \* the two artifact files of the region on disk
  race_cache,      \* the regions that are keys of _model_cache
  race_net_failed  \* whether an HTTP download has failed

raceVars == <<race_region, race_pc, race_chunk, race_file, race_cache, race_net_failed>>

VARIABLES
  shim_kind,       \* "model", "calibrator" or "vectorizer": what the shims are applied to
  shim_orig,       \* the object as joblib.load returned it
  shim_obj,        \* the object now
  shim_once,       \* the object after the first application
  shim_count       \* how many times the shims have been applied

shimVars == <<shim_kind, shim_orig, shim_obj, shim_once, shim_count>>

VARIABLES
  labelled_frames  \* whether callers pass frames whose index is not 0..n-1

indexVars == <<labelled_frames>>

VARIABLES
  frame_fn,        \* the unified function that is called
  frame_in,        \* the columns of the frame passed as df, as they were at the call
  frame_heap,      \* the frame objects: df, and result_df once it is made
  frame_out        \* the outcome of the call and the object it returned

frameVars == <<frame_fn, frame_in, frame_heap, frame_out>>

vars == <<urlVars, statVars, llmVars, parseVars, truncVars, cleanVars, legacyVars, raceVars,
          shimVars, indexVars, frameVars>>

\* A DataFrame cell is either None (None / NaN of the source) or V(x) for a value x
None == [none |-> TRUE]
V(x) == [v |-> x]
\* pd.isna / pd.isnull on one cell
isna(c) == c = None

(***************************************************************************)
(* Bounds                                                                  *)
(***************************************************************************)
MaxFrags == 2      \* a URL is the concatenation of at most MaxFrags fragments
MaxUrlRows == 2    \* rows of a classify_by_url batch
MaxStatRows == 2   \* rows of a predict_soft_news / predict_news_category batch
MaxCalls == 2      \* calls of the statistical path in one process
MaxLlmRows == 2    \* rows of a classify_news batch
RecursionLimit == 3  \* nested calls of a classify function the interpreter allows
MaxTokens == 3       \* largest max_tokens argument of a truncation call
MaxPad == 9          \* a text starts with at most MaxPad plain characters
MaxTail == 4         \* and ends with at most MaxTail characters of any kind
MaxCleanLen == 3     \* characters of a clean_text argument
NumChunks == 2       \* chunks that iter_content yields for one artifact
MaxFolds == 1        \* sub-classifiers in calibrated_classifiers_
MaxLabel == 2        \* largest index label of an input frame
MaxFrameRows == 2    \* rows of a frame whose columns are followed

(***************************************************************************)
(* URL pattern matcher                                                     *)
(***************************************************************************)

URL_PATTERNS ==
  [ us |-> [hard_news |->
              {
              <<"p","o","l","i","t","i">>, <<"u","s","n","e","w","s">>, <<"w","o","r","l","d">>,
              <<"n","a","t","i","o","n","a","l">>, <<"s","t","a","t","e">>, <<"e","l","e","c","t">>,
              <<"v","o","t","e">>, <<"g","o","v","e","r","n">>, <<"c","a","m","p","a","i","g","n">>,
              <<"w","a","r">>, <<"p","o","l","i","c">>, <<"e","c","o","n">>,
              <<"u","n","e","m","p","l","o","y">>, <<"r","a","c","i","s">>, <<"e","n","e","r","g","y">>,
              <<"a","b","o","r","t","i","o","n">>, <<"e","d","u","c","a">>,
              <<"h","e","a","l","t","h","c","a","r","e">>, <<"i","m","m","i","g","r","a","t","i","o","n">>
              },
            soft_news |->
              {
              <<"s","p","o","r","t">>, <<"e","n","t","e","r","t","a","i","n","m","e","n","t">>,
              <<"a","r","t","s">>, <<"f","a","s","h","i","o","n">>, <<"s","t","y","l","e">>,
              <<"l","i","f","e","s","t","y","l","e">>, <<"l","e","i","s","u","r","e">>,
              <<"c","e","l","e","b">>, <<"m","o","v","i","e">>, <<"m","u","s","i","c">>,
              <<"g","o","s","s","i","p">>, <<"f","o","o","d">>, <<"t","r","a","v","e","l">>,
              <<"h","o","r","o","s","c","o","p","e">>, <<"w","e","a","t","h","e","r">>,
              <<"g","a","d","g","e","t">>
              }],
    uk |-> [hard_news |->
              {
              <<"p","o","l","i","t","i">>, <<"w","o","r","l","d">>, <<"n","a","t","i","o","n","a","l">>,
              <<"u","k","-","n","e","w","s">>, <<"s","c","o","t","t","i","s","h","-","n","e","w","s">>,
              <<"n","e","w","s","-","e","u">>, <<"s","t","a","t","e">>, <<"l","o","c","a","l">>,
              <<"e","l","e","c","t">>, <<"v","o","t","e">>, <<"g","o","v","e","r","n">>,
              <<"c","a","m","p","a","i","g","n">>, <<"w","a","r">>, <<"p","o","l","i","c">>,
              <<"e","c","o","n">>, <<"u","n","e","m","p","l","o","y">>, <<"e","n","e","r","g","y">>,
              <<"e","d","u","c","a">>, <<"h","e","a","l","t","h","c","a","r","e">>,
              <<"i","m","m","i","g","r","a","t","i","o","n">>
              },
            soft_news |->
              {
              <<"s","p","o","r","t">>, <<"f","o","o","t","b","a","l","l">>,
              <<"e","n","t","e","r","t","a","i","n","m","e","n","t">>, <<"c","u","l","t","u","r","e">>,
              <<"a","r","t","s">>, <<"f","a","s","h","i","o","n">>, <<"s","t","y","l","e">>,
              <<"l","i","f","e","s","t","y","l","e">>, <<"l","i","f","e","-","s","t","y","l","e">>,
              <<"l","e","i","s","u","r","e">>, <<"c","e","l","e","b">>, <<"m","o","v","i","e">>,
              <<"m","u","s","i","c">>, <<"g","o","s","s","i","p">>, <<"f","o","o","d">>,
              <<"t","r","a","v","e","l">>, <<"h","o","r","o","s","c","o","p","e">>,
              <<"w","e","a","t","h","e","r">>, <<"g","a","d","g","e","t">>
              }] ]

Regions == {"us", "uk"}

\* t occurs in s at offset k (0-based)
OccursAt(t, s, k) ==
  /\ k + Len(t) <= Len(s)
  /\ \A j \in 1..Len(t) : s[k + j] = t[j]

\* re.Pattern.search for an alternation of literals: a match anywhere in s
Search_AnchoredAtStart(terms, s) ==
  \E t \in terms : OccursAt(t, s, 0)

Search(terms, s) ==
  \E t \in terms : \E k \in 0..Len(s) : OccursAt(t, s, k)

\* classify_url: the closure applied to every row
classify_url(url, region) ==
  IF isna(url)
    THEN [hard_news |-> None, soft_news |-> None]
    ELSE [hard_news |-> IF Search(URL_PATTERNS[region].hard_news, url.v) THEN V(1) ELSE None,
          soft_news |-> IF Search(URL_PATTERNS[region].soft_news, url.v) THEN V(1) ELSE None]

RECURSIVE Flatten(_)
Flatten(ss) == IF ss = <<>> THEN <<>> ELSE Head(ss) \o Flatten(Tail(ss))

RECURSIVE SeqsUpTo(_, _)
SeqsUpTo(S, n) ==
  IF n = 0 THEN {<<>>}
  ELSE LET prev == SeqsUpTo(S, n - 1)
       IN prev \cup {Append(p, x) : p \in {q \in prev : Len(q) = n - 1}, x \in S}

\* classify_by_url(df, url_col, region)
classify_by_url ==
  /\ url_pc = "ready"
  /\ IF ~url_col_ok \/ url_region \notin DOMAIN URL_PATTERNS
       THEN /\ url_pc' = "raised"
            /\ UNCHANGED <<url_result, url_searched>>
       ELSE /\ url_result' = [i \in 1..Len(url_df) |-> classify_url(url_df[i], url_region)]
            /\ url_searched' = [i \in 1..Len(url_df) |-> IF isna(url_df[i]) THEN 0 ELSE 2]
            /\ url_pc' = "returned"
  /\ UNCHANGED <<url_df, url_col_ok, url_region>>

NextUrl == classify_by_url /\ UNCHANGED <<statVars, llmVars, parseVars, truncVars, cleanVars,
                                          legacyVars, raceVars, shimVars, indexVars, frameVars>>

(***************************************************************************)
(* The legacy URL categorizer (soft_news_url_cat.SoftNewsURLCategorizer)   *)
(***************************************************************************)
UpperCase ==
  <<"A", "B", "C", "D", "E", "F", "G", "H", "I", "J", "K", "L", "M",
    "N", "O", "P", "Q", "R", "S", "T", "U", "V", "W", "X", "Y", "Z">>

\* str.lower
str_lower(u) ==
  [i \in 1..Len(u) |->
     IF \E k \in 1..26 : UpperCase[k] = u[i]
       THEN <<"a", "b", "c", "d", "e", "f", "g", "h", "i", "j", "k", "l", "m",
              "n", "o", "p", "q", "r", "s", "t", "u", "v", "w", "x", "y", "z">>
              [CHOOSE k \in 1..26 : UpperCase[k] = u[i]]
       ELSE u[i]]

\* str.strip: leading and trailing blanks removed
RECURSIVE str_strip(_)
str_strip(u) ==
  IF u = <<>> THEN u
  ELSE IF Head(u) = " " THEN str_strip(Tail(u))
  ELSE IF u[Len(u)] = " " THEN str_strip(SubSeq(u, 1, Len(u) - 1))
  ELSE u

\* is_hard_lab / is_soft_lab on one cell of the __url column
is_lab(pattern, c) ==
  IF pattern # {} /\ ~isna(c)
    THEN (IF Search(pattern, c.v) THEN V(1) ELSE None)
    ELSE None

\* SoftNewsURLCategorizer.soft_news_url_cat(df, col) of the class selected by
\* url_region.  With no non-null URL the frame is returned without new columns.
soft_news_url_cat ==
  /\ url_pc = "ready"
  /\ IF ~url_col_ok
       THEN /\ url_pc' = "legacy_raised"
            /\ UNCHANGED <<url_result, url_searched>>
     ELSE IF \A i \in 1..Len(url_df) : isna(url_df[i])
       THEN /\ url_pc' = "legacy_returned"
            /\ UNCHANGED <<url_result, url_searched>>
     ELSE LET pat == IF url_region \in DOMAIN URL_PATTERNS
                       THEN [hard_lab |-> URL_PATTERNS[url_region].hard_news,
                             soft_lab |-> URL_PATTERNS[url_region].soft_news]
                       ELSE [hard_lab |-> {}, soft_lab |-> {}]
              __url == [i \in 1..Len(url_df) |->
                          IF isna(url_df[i]) THEN None
                          ELSE V(str_lower(str_strip(url_df[i].v)))]
          IN /\ url_result' = [i \in 1..Len(url_df) |->
                                 [soft_lab |-> is_lab(pat.soft_lab, __url[i]),
                                  hard_lab |-> is_lab(pat.hard_lab, __url[i])]]
             /\ url_searched' = [i \in 1..Len(url_df) |->
                                   IF isna(url_df[i]) THEN 0
                                   ELSE Cardinality({k \in {"soft_lab", "hard_lab"} :
                                                       pat[k] # {}})]
             /\ url_pc' = "legacy_returned"
  /\ UNCHANGED <<url_df, url_col_ok, url_region>>

NextUrlCase ==
  \/ classify_by_url /\ UNCHANGED <<statVars, llmVars, parseVars, truncVars, cleanVars,
                                    legacyVars, raceVars, shimVars, indexVars, frameVars>>
  \/ soft_news_url_cat /\ UNCHANGED <<statVars, llmVars, parseVars, truncVars, cleanVars,
                                      legacyVars, raceVars, shimVars, indexVars, frameVars>>

(***************************************************************************)
(* Model loader / cache and prediction engine                              *)
(***************************************************************************)
\* classifiers.MODEL_CONFIGS, and the two files predict_news_category names
MODEL_CONFIGS ==
  [ us |-> [model_file |-> "data/us_model/nyt_us_soft_news_classifier.joblib",
            vectorizer_file |-> "data/us_model/nyt_us_soft_news_vectorizer.joblib"],
    uk |-> [model_file |-> "data/uk_model/url_uk_classifier.joblib",
            vectorizer_file |-> "data/uk_model/url_uk_vectorizer.joblib"] ]

CATEGORY_CONFIG ==
  [model_file |-> "data/us_model/nyt_us_classifier.joblib",
   vectorizer_file |-> "data/us_model/nyt_us_vectorizer.joblib"]

\* MODELFN / VECTFN of the legacy SoftNewsModel subclasses
LEGACY_CONFIGS ==
  [ UKSoftNewsModel |-> MODEL_CONFIGS.uk,
    USSoftNewsModel2 |-> MODEL_CONFIGS.us,
    USWhatNewsModel |-> CATEGORY_CONFIG ]

Files ==
  {MODEL_CONFIGS[r][k] : r \in DOMAIN MODEL_CONFIGS, k \in {"model_file", "vectorizer_file"}}
    \cup {CATEGORY_CONFIG.model_file, CATEGORY_CONFIG.vectorizer_file}

\* utils.download_file(url, target): TRUE and a complete file, or FALSE
download_file(fsv, f, net) ==
  [ok |-> net = "ok",
   fs |-> IF net = "fail" THEN fsv ELSE [fsv EXCEPT ![f] = net],
   tried |-> <<f>>]

\* classifiers._download_model_if_needed(file_path)
_download_model_if_needed(fsv, f, net) ==
  IF fsv[f] = "absent"
    THEN download_file(fsv, f, net)
    ELSE [ok |-> TRUE, fs |-> fsv, tried |-> <<>>]

\* joblib.load(path) succeeds on a complete file and raises on anything else
joblib_load_ok(fsv, f) == fsv[f] = "ok"

\* the network outcomes that matter for one file: none when no download is made
NetChoices(fsv, f, force) == IF fsv[f] = "absent" \/ force THEN ({"ok", "fail", "partial"}) ELSE {"ok"}

\* the second file is fetched only after the first fetch succeeded
NetChoicesAfter(n1, fsv, f, force) == IF n1 = "ok" THEN NetChoices(fsv, f, force) ELSE {"ok"}

\* The download-then-deserialize sequence shared by _load_model and
\* predict_news_category: model file, vectorizer file, joblib.load of each.
\* The result tells whether it raised, and what it did on the way.
FetchAndLoad(cfg, fsv, ldv, n1, n2) ==
  LET d1 == _download_model_if_needed(fsv, cfg.model_file, n1)
      d2 == _download_model_if_needed(d1.fs, cfg.vectorizer_file, n2)
      bump1 == [ldv EXCEPT ![cfg.model_file] = @ + 1]
      bump2 == [bump1 EXCEPT ![cfg.vectorizer_file] = @ + 1]
  IN IF ~d1.ok
       THEN [raised |-> TRUE, error |-> "RuntimeError", fs |-> d1.fs, loads |-> ldv,
             tried |-> d1.tried, fetch_failed |-> TRUE, deser |-> 0, loaded |-> FALSE]
     ELSE IF ~d2.ok
       THEN [raised |-> TRUE, error |-> "RuntimeError", fs |-> d2.fs, loads |-> ldv,
             tried |-> d1.tried \o d2.tried, fetch_failed |-> TRUE, deser |-> 0,
             loaded |-> FALSE]
     ELSE IF ~joblib_load_ok(d2.fs, cfg.model_file)
       THEN [raised |-> TRUE, error |-> "RuntimeError", fs |-> d2.fs, loads |-> bump1,
             tried |-> d1.tried \o d2.tried, fetch_failed |-> FALSE, deser |-> 1,
             loaded |-> FALSE]
     ELSE IF ~joblib_load_ok(d2.fs, cfg.vectorizer_file)
       THEN [raised |-> TRUE, error |-> "RuntimeError", fs |-> d2.fs, loads |-> bump2,
             tried |-> d1.tried \o d2.tried, fetch_failed |-> FALSE, deser |-> 2,
             loaded |-> FALSE]
     ELSE [raised |-> FALSE, error |-> "", fs |-> d2.fs, loads |-> bump2,
           tried |-> d1.tried \o d2.tried, fetch_failed |-> FALSE, deser |-> 2,
           loaded |-> TRUE]

\* classifiers._load_model(region), for a region of MODEL_CONFIGS
_load_model(region, cache, fsv, ldv, n1, n2) ==
  IF region \in cache
    THEN [raised |-> FALSE, error |-> "", fs |-> fsv, loads |-> ldv, tried |-> <<>>,
          fetch_failed |-> FALSE, deser |-> 0, loaded |-> TRUE, cache |-> cache]
    ELSE LET r == FetchAndLoad(MODEL_CONFIGS[region], fsv, ldv, n1, n2)
         IN [raised |-> r.raised, error |-> r.error, fs |-> r.fs, loads |-> r.loads,
             tried |-> r.tried, fetch_failed |-> r.fetch_failed, deser |-> r.deser,
             loaded |-> r.loaded,
             cache |-> IF r.loaded THEN cache \cup {region} ELSE cache]

\* SoftNewsModel.load_model_data(latest): a failed download returns (None, None)
\* and joblib.load is outside any try block
load_model_data(cls, latest, fsv, ldv, n1, n2) ==
  LET cfg == LEGACY_CONFIGS[cls]
      d1 == IF fsv[cfg.model_file] = "absent" \/ latest
              THEN download_file(fsv, cfg.model_file, n1)
              ELSE [ok |-> TRUE, fs |-> fsv, tried |-> <<>>]
      d2 == IF d1.fs[cfg.vectorizer_file] = "absent" \/ latest
              THEN download_file(d1.fs, cfg.vectorizer_file, n2)
              ELSE [ok |-> TRUE, fs |-> d1.fs, tried |-> <<>>]
      bump1 == [ldv EXCEPT ![cfg.model_file] = @ + 1]
      bump2 == [bump1 EXCEPT ![cfg.vectorizer_file] = @ + 1]
  IN IF ~d1.ok
       THEN [outcome |-> "returned_none", fs |-> d1.fs, loads |-> ldv, tried |-> d1.tried,
             fetch_failed |-> TRUE, deser |-> 0]
     ELSE IF ~d2.ok
       THEN [outcome |-> "returned_none", fs |-> d2.fs, loads |-> ldv,
             tried |-> d1.tried \o d2.tried, fetch_failed |-> TRUE, deser |-> 0]
     ELSE IF ~joblib_load_ok(d2.fs, cfg.model_file)
       THEN [outcome |-> "raised", fs |-> d2.fs, loads |-> bump1,
             tried |-> d1.tried \o d2.tried, fetch_failed |-> FALSE, deser |-> 1]
     ELSE IF ~joblib_load_ok(d2.fs, cfg.vectorizer_file)
       THEN [outcome |-> "raised", fs |-> d2.fs, loads |-> bump2,
             tried |-> d1.tried \o d2.tried, fetch_failed |-> FALSE, deser |-> 2]
     ELSE [outcome |-> "returned_pair", fs |-> d2.fs, loads |-> bump2,
           tried |-> d1.tried \o d2.tried, fetch_failed |-> FALSE, deser |-> 2]

TextBatches == SeqsUpTo(({None, V("B")}), MaxStatRows)

\* utils.clean_text on a string: lowercasing is the step that shows on these texts
clean_text(t) == IF t = "B" THEN "b" ELSE t

\* predict_soft_news: text_data = clean_text(x) if pd.notnull(x) else ""
soft_text_data(df) ==
  [i \in 1..Len(df) |-> IF ~isna(df[i]) THEN clean_text(df[i].v) ELSE ""]

\* predict_news_category: text_data = df[col].str.strip().str.lower().fillna("")
category_text_data(df) ==
  [i \in 1..Len(df) |-> IF isna(df[i]) THEN "" ELSE IF df[i].v = "B" THEN "b" ELSE df[i].v]

\* df[text_col].notnull().any()
any_valid(df) == \E i \in 1..Len(df) : ~isna(df[i])

\* The fitted binary classifiers: predict_proba(X)[:, 1] of one document, in
\* percent.  A fitted artifact is a fixed function of the document.
soft_proba(region, doc) ==
  IF region = "us"
    THEN (IF doc = "a" THEN 90 ELSE IF doc = "b" THEN 10 ELSE 50)
    ELSE (IF doc = "a" THEN 70 ELSE IF doc = "b" THEN 20 ELSE 40)

predict_column_Refit(region, text_data) ==
  [i \in 1..Len(text_data) |->
     IF \E j \in 1..Len(text_data) : j # i /\ text_data[j] = text_data[i]
       THEN V(50)
       ELSE V(soft_proba(region, text_data[i]))]

\* model.predict_proba(vectorizer.transform(text_data))[:, 1]: the fitted
\* vectorizer and classifier are applied to each document on its own
predict_column(region, text_data) ==
  [i \in 1..Len(text_data) |-> V(soft_proba(region, text_data[i]))]

\* MODEL_CONFIGS["us"]["soft_news_categories"]
soft_news_categories ==
  {"Arts", "Books", "Classifieds", "Dining", "Leisure", "Obits", "Other",
   "Real Estate", "Style", "Travel"}

\* model.classes_ of the fitted category model: the soft categories and two others
classes_ == soft_news_categories \cup {"Foreign", "National"}

\* the documents the vectorizer can be given: cleaned texts and the empty string
Docs == {"", "a", "b"}

\* The fitted category classifier: predict_proba of one document, in percent per class
category_proba ==
  [doc \in Docs |->
     [c \in classes_ |->
        IF doc = "a" THEN (IF c = "Arts" THEN 60 ELSE IF c = "Style" THEN 15
                           ELSE IF c = "National" THEN 25 ELSE 0)
        ELSE IF doc = "b" THEN (IF c = "Foreign" THEN 70 ELSE IF c = "National" THEN 20
                                ELSE IF c = "Travel" THEN 10 ELSE 0)
        ELSE (IF c = "Other" THEN 40 ELSE IF c = "National" THEN 35
              ELSE IF c = "Foreign" THEN 25 ELSE 0)]]

\* model.predict of one document: the class of highest probability
category_predict ==
  [doc \in Docs |->
     CHOOSE c \in classes_ : \A d \in classes_ : category_proba[doc][c] >= category_proba[doc][d]]

RECURSIVE SumOver(_, _)
SumOver(f, S) ==
  IF S = {} THEN 0 ELSE LET x == CHOOSE y \in S : TRUE IN f[x] + SumOver(f, S \ {x})

\* prob_df[soft_categories].sum(axis=1) for one row
soft_sum_AllClasses == [doc \in Docs |-> SumOver(category_proba[doc], classes_)]

soft_sum == [doc \in Docs |-> SumOver(category_proba[doc], soft_news_categories)]

ProbColumn == [us |-> "prob_soft_news_us", uk |-> "prob_soft_news_uk"]

NoColumns == [c \in {} |-> <<>>]

\* a column holding the same cell in each of n rows
Fill(n, cell) == [i \in 1..n |-> cell]

\* pd.RangeIndex(n), the index of a frame built without one
RangeIndex(n) == [i \in 1..n |-> i - 1]

\* result_df[name] = series, where series carries RangeIndex(n): each row of
\* result_df takes the value whose label equals its own label, or NaN
assign_series(index, series) ==
  [i \in 1..Len(index) |->
     IF index[i] < Len(series) THEN series[index[i] + 1] ELSE ([nan |-> TRUE])]

\* what a call of the statistical path records about itself
CallRecord(op, arg, df, col_ok) ==
  [op |-> op, arg |-> arg, df |-> df, index |-> RangeIndex(Len(df)),
   col_ok |-> col_ok, latest |-> FALSE,
   outcome |-> "returned", error |-> "", columns |-> NoColumns,
   sent_vec |-> {}, sent_model |-> {}, vec_raised |-> FALSE, proba_raised |-> FALSE,
   fetch_failed |-> FALSE, deser |-> 0, tried |-> <<>>]

Raise_ReturnsNormally(rec, err) == rec

Raise(rec, err) == [rec EXCEPT !.outcome = "raised", !.error = err]

WithLoad(rec, L) ==
  [rec EXCEPT !.fetch_failed = L.fetch_failed, !.deser = L.deser, !.tried = L.tried]

\* predict_soft_news, the except branch around predict_proba: the error is
\* logged and the whole column is set to None
soft_on_proba_error_Reraise(rec, n, region) ==
  Raise([rec EXCEPT !.proba_raised = TRUE], "Exception")

soft_on_proba_error(rec, n, region) ==
  [rec EXCEPT !.proba_raised = TRUE, !.columns = ProbColumn[region] :> Fill(n, None)]

\* the end of a call: the process state and the record of the call
Finish(rec, fsv, cache, ldv) ==
  /\ stat_last' = rec
  /\ fs' = fsv
  /\ _model_cache' = cache
  /\ loads' = ldv
  /\ stat_calls' = stat_calls + 1
  /\ all_ok' = (all_ok /\ rec.outcome = "returned"
                     /\ rec.op \in {"predict_soft_news", "predict_news_category"})
  /\ UNCHANGED <<urlVars, llmVars, parseVars, truncVars, cleanVars, legacyVars, raceVars,
                 shimVars, indexVars, frameVars>>

\* classifiers.predict_soft_news(df, text_col, region)
predict_soft_news ==
  /\ stat_calls < MaxCalls
  /\ \E df \in TextBatches, col_ok \in BOOLEAN, region \in Regions \cup {"fr"} :
       LET rec == CallRecord("predict_soft_news", region, df, col_ok)
           n == Len(df)
       IN IF ~col_ok \/ region \notin DOMAIN MODEL_CONFIGS
            THEN Finish(Raise(rec, "ValueError"), fs, _model_cache, loads)
          ELSE IF ~any_valid(df)
            THEN Finish([rec EXCEPT !.columns = ProbColumn[region] :> Fill(n, None)],
                        fs, _model_cache, loads)
          ELSE
            \E n1 \in (IF region \in _model_cache THEN {"ok"}
                       ELSE NetChoices(fs, MODEL_CONFIGS[region].model_file, FALSE)) :
            \E n2 \in (IF region \in _model_cache THEN {"ok"}
                       ELSE NetChoicesAfter(n1, fs, MODEL_CONFIGS[region].vectorizer_file,
                                            FALSE)) :
              LET L == _load_model(region, _model_cache, fs, loads, n1, n2)
                  loaded == WithLoad(rec, L)
                  text_data == soft_text_data(df)
                  vectorized == [loaded EXCEPT !.sent_vec = 1..n]
                  predicted == [vectorized EXCEPT !.sent_model = 1..n]
              IN IF L.raised
                   THEN Finish(Raise(loaded, L.error), L.fs, L.cache, L.loads)
                 ELSE
                   \E vec_raises \in BOOLEAN, proba_raises \in BOOLEAN :
                     IF vec_raises
                       THEN /\ ~proba_raises
                            /\ Finish(Raise([vectorized EXCEPT !.vec_raised = TRUE],
                                            "Exception"),
                                      L.fs, L.cache, L.loads)
                     ELSE IF proba_raises
                       THEN Finish(soft_on_proba_error(predicted, n, region),
                                   L.fs, L.cache, L.loads)
                     ELSE Finish([predicted EXCEPT
                                    !.columns = ProbColumn[region] :>
                                       predict_column(region, text_data)],
                                 L.fs, L.cache, L.loads)

\* classifiers.predict_news_category(df, text_col)
predict_news_category ==
  /\ stat_calls < MaxCalls
  /\ \E df \in TextBatches, col_ok \in BOOLEAN :
     \E index \in (IF labelled_frames THEN [1..Len(df) -> 0..MaxLabel]
                    ELSE {RangeIndex(Len(df))}) :
       LET rec == [CallRecord("predict_news_category", "us", df, col_ok) EXCEPT
                     !.index = index]
           n == Len(df)
       IN IF ~col_ok
            THEN Finish(Raise(rec, "ValueError"), fs, _model_cache, loads)
          ELSE
            \E n1 \in NetChoices(fs, CATEGORY_CONFIG.model_file, FALSE) :
            \E n2 \in NetChoicesAfter(n1, fs, CATEGORY_CONFIG.vectorizer_file, FALSE) :
              LET L == FetchAndLoad(CATEGORY_CONFIG, fs, loads, n1, n2)
                  loaded == WithLoad(rec, L)
                  text_data == category_text_data(df)
                  vectorized == [loaded EXCEPT !.sent_vec = 1..n]
                  predicted == [vectorized EXCEPT !.sent_model = 1..n]
                  fallback == ("pred_category" :> Fill(n, V("Other")))
                                @@ ("prob_soft_news" :> Fill(n, V(50)))
              IN IF L.raised
                   THEN Finish(Raise(loaded, L.error), L.fs, _model_cache, L.loads)
                 ELSE IF ~any_valid(df)
                   THEN Finish([loaded EXCEPT
                                  !.columns = ("pred_category" :> Fill(n, None))
                                                @@ ("prob_soft_news" :> Fill(n, None))],
                               L.fs, _model_cache, L.loads)
                 ELSE
                   \E vec_raises \in BOOLEAN, proba_raises \in BOOLEAN :
                     IF vec_raises
                       THEN /\ ~proba_raises
                            /\ Finish([vectorized EXCEPT !.vec_raised = TRUE,
                                                         !.columns = fallback],
                                      L.fs, _model_cache, L.loads)
                     ELSE IF proba_raises
                       THEN Finish([predicted EXCEPT !.proba_raised = TRUE,
                                                     !.columns = fallback],
                                   L.fs, _model_cache, L.loads)
                     ELSE Finish([predicted EXCEPT
                                    !.columns =
                                       ("pred_category" :>
                                          [i \in 1..n |-> V(category_predict[text_data[i]])])
                                       @@ ("prob_soft_news" :>
                                          assign_series(index,
                                            [i \in 1..n |-> V(soft_sum[text_data[i]])]))],
                                 L.fs, _model_cache, L.loads)

LegacyClasses == DOMAIN LEGACY_CONFIGS

\* a direct call of SoftNewsModel.load_model_data(latest) on one subclass
LoadModelData ==
  /\ stat_calls < MaxCalls
  /\ \E cls \in LegacyClasses, latest \in BOOLEAN :
       \E n1 \in NetChoices(fs, LEGACY_CONFIGS[cls].model_file, latest) :
       \E n2 \in NetChoicesAfter(n1, fs, LEGACY_CONFIGS[cls].vectorizer_file, latest) :
         LET L == load_model_data(cls, latest, fs, loads, n1, n2)
             rec == [CallRecord("load_model_data", cls, <<>>, TRUE) EXCEPT
                       !.latest = latest, !.outcome = L.outcome,
                       !.error = IF L.outcome = "raised" THEN "Exception" ELSE "",
                       !.fetch_failed = L.fetch_failed, !.deser = L.deser,
                       !.tried = L.tried]
         IN Finish(rec, L.fs, _model_cache, L.loads)

\* a process that makes one classify_by_url call, or else a sequence of
\* predict_soft_news calls
NextFailFast ==
  \/ classify_by_url /\ UNCHANGED <<statVars, llmVars, parseVars, truncVars, cleanVars,
                                    legacyVars, raceVars, shimVars, indexVars, frameVars>>
  \/ url_pc = "idle" /\ predict_soft_news

NextStat ==
  \/ predict_soft_news
  \/ predict_news_category
  \/ LoadModelData

(***************************************************************************)
(* LLM classification engine: response parsing                             *)
(***************************************************************************)
\* the keys of llm.DEFAULT_CATEGORIES, in declaration order
DEFAULT_CATEGORIES == <<"hard_news", "soft_news", "opinion", "feature">>

Keys(categories) == {categories[i] : i \in 1..Len(categories)}

\* A Python float: a number in hundredths, or nan, inf, -inf
Num(n) == [t |-> "num", n |-> n]
NaN == [t |-> "nan"]

\* a < b on Python floats: every comparison with nan is False
float_lt(a, b) ==
  IF a.t = "nan" \/ b.t = "nan" THEN FALSE
  ELSE IF a.t = "num" /\ b.t = "num" THEN a.n < b.n
  ELSE IF a.t = "-inf" THEN b.t # "-inf"
  ELSE IF a.t = "inf" THEN FALSE
  ELSE b.t = "inf"

\* a <= b on Python floats
float_le(a, b) ==
  IF a.t = "nan" \/ b.t = "nan" THEN FALSE ELSE float_lt(a, b) \/ a = b

\* Values of JSON fields.  A string field is a TLA+ string; the markers below
\* stand for a field that is missing, null, or an array.
Absent == "<absent>"
JNull == "<null>"
JList == "<list>"

\* a JSON confidence value: a number, NaN / Infinity literals, a string that
\* float() rejects, null, or no field at all
JNum(n) == [j |-> "number", f |-> Num(n)]
JNaN == [j |-> "number", f |-> NaN]
JInfinity == [j |-> "number", f |-> ([t |-> "inf"])]

JBadString == [j |-> "string"]
JNullConf == [j |-> "null"]
JAbsentConf == [j |-> "absent"]

\* Tokens of a response text: the two fence markers, prose, and a JSON document
FenceJson == [k |-> "fence_json"]   \* three backticks followed by json
Fence == [k |-> "fence"]            \* three backticks
Prose(words) == [k |-> "prose", words |-> words]
JsonObject(category, confidence, reasoning) ==
  [k |-> "json", kind |-> "object", category |-> category, confidence |-> confidence,
   reasoning |-> reasoning]
JsonNumber == [k |-> "json", kind |-> "number"]
JsonArray == [k |-> "json", kind |-> "array"]

\* str.lower on the category names in use
lower(s) == IF s = "Soft_News" THEN "soft_news" ELSE s

\* the lowercased words a token's text holds
Words(tok) ==
  IF tok.k = "prose" THEN tok.words
  ELSE IF tok.k = "json" /\ tok.kind = "object" /\ tok.category \notin {Absent, JNull, JList}
    THEN {lower(tok.category)}
  ELSE {}

\* index of the first token of text at or after position p for which test holds,
\* Len(text) + 1 if there is none
RECURSIVE FirstFrom(_, _, _)
FirstFrom(text, p, json_only) ==
  IF p > Len(text) THEN p
  ELSE IF (IF json_only THEN text[p] = FenceJson ELSE text[p].k \in {"fence_json", "fence"}) THEN p
  ELSE FirstFrom(text, p + 1, json_only)

\* text.split(marker)[1].split(fence)[0]: what follows the first marker, up to
\* the next fence of either kind
Unfence(text, json_only) ==
  LET a == FirstFrom(text, 1, json_only)
      b == FirstFrom(text, a + 1, FALSE)
  IN SubSeq(text, a + 1, b - 1)

\* lines 132-135: the text handed to json.loads
strip_fences_TaggedOnly(text) ==
  IF \E i \in 1..Len(text) : text[i] = FenceJson THEN Unfence(text, TRUE)
  ELSE text

strip_fences(text) ==
  IF \E i \in 1..Len(text) : text[i] = FenceJson THEN Unfence(text, TRUE)
  ELSE IF \E i \in 1..Len(text) : text[i].k \in {"fence_json", "fence"}
    THEN Unfence(text, FALSE)
  ELSE text

\* lines 160-171: the fallback result, searching the taxonomy keys in order
RECURSIVE first_key_in(_, _, _)
first_key_in(categories, i, words) ==
  IF i > Len(categories) THEN Absent
  ELSE IF lower(categories[i]) \in words THEN categories[i]
  ELSE first_key_in(categories, i + 1, words)

parse_fallback(text, categories) ==
  LET words == UNION {Words(text[i]) : i \in 1..Len(text)}
      category == first_key_in(categories, 1, words)
  IN [error |-> "",
      category |-> IF category # Absent THEN category ELSE categories[1],
      confidence |-> Num(50),
      reasoning |-> "Failed to parse structured response"]

\* lines 151-153: float() then the clamp
clamp_confidence_NoClamp(f) == f

clamp_confidence(f) ==
  IF ~(float_le(Num(0), f) /\ float_le(f, Num(100)))
    THEN LET raised == IF float_lt(f, Num(0)) THEN Num(0) ELSE f
         IN IF float_lt(Num(100), raised) THEN Num(100) ELSE raised
    ELSE f

\* llm._parse_llm_response(response_text, categories).  error is "" when a
\* result dict is returned and the exception type when the call raises.
_parse_llm_response(response_text, categories) ==
  LET text == strip_fences(response_text)
      Raised(e) == [error |-> e, category |-> Absent, confidence |-> NaN,
                    reasoning |-> Absent]
  IN IF ~(Len(text) = 1 /\ text[1].k = "json")
       THEN parse_fallback(text, categories)              \* json.JSONDecodeError
     ELSE LET result == text[1]
          IN IF result.kind = "number"
               THEN Raised("TypeError")                   \* k in <number>
             ELSE IF result.kind = "array"
               THEN parse_fallback(text, categories)      \* Missing required fields
             ELSE IF \/ result.category = Absent
                     \/ result.confidence = JAbsentConf
                     \/ result.reasoning = Absent
               THEN parse_fallback(text, categories)      \* Missing required fields
             ELSE IF result.category = JList
               THEN Raised("TypeError")                   \* unhashable type
             ELSE LET category == IF result.category \in Keys(categories)
                                    THEN result.category
                                    ELSE categories[1]
                      x == result.confidence
                      fl == IF x.j = "number" THEN [error |-> "", f |-> x.f]
                            ELSE IF x.j = "string" THEN [error |-> "ValueError", f |-> NaN]
                            ELSE [error |-> "TypeError", f |-> NaN]
                  IN IF fl.error = "ValueError" THEN parse_fallback(text, categories)
                     ELSE IF fl.error = "TypeError" THEN Raised("TypeError")
                     ELSE [error |-> "", category |-> category,
                           confidence |-> clamp_confidence(fl.f),
                           reasoning |-> result.reasoning]

(***************************************************************************)
(* LLM classification engine: the per-row loop of classify_news            *)
(***************************************************************************)
Providers == {"claude", "openai"}

\* the reply the prompt asks for, and replies that each differ from it in one way
GoodReply == JsonObject("soft_news", JNum(95), "r")

ProviderDocs ==
  {GoodReply}
    \cup {JsonObject(c, JNum(95), "r") : c \in {"sports", "Soft_News", Absent, JNull, JList}}
    \cup {JsonObject("soft_news", x, "r") :
            x \in {JNum(150), JNum(0 - 50), JNaN, JInfinity, JBadString, JNullConf,
                   JAbsentConf}}
    \cup {JsonObject("soft_news", JNum(95), r) : r \in {Absent, JNull}}
    \cup {JsonNumber, JsonArray}

\* the next row after i whose text is not null, 0 when there is none:
\* the iteration over result_df[valid_rows].index
RECURSIVE next_valid(_, _)
next_valid(text, i) ==
  IF i >= Len(text) THEN 0
  ELSE IF ~isna(text[i + 1]) THEN i + 1
  ELSE next_valid(text, i + 1)

NoResult == [error |-> "<none>"]

\* the cell a result field is stored as: JSON null is Python None
str_cell(x) == IF x = JNull THEN None ELSE V(x)

ResultColumns == {"llm_category", "llm_confidence", "llm_reasoning"}

\* what the loop does after a row: the next valid row, or the return
loop_after(i) ==
  LET j == next_valid(llm_text, i)
  IN /\ llm_idx' = j
     /\ llm_depth' = 0
     /\ llm_pc' = IF j = 0 THEN "returned" ELSE "loop"

\* lines 353-355: the row's exception is logged and the loop continues
row_failed_Abort(kind, exc) ==
  /\ llm_status' = [llm_status EXCEPT ![llm_idx] = "failed"]
  /\ llm_event' = [kind |-> kind, row |-> llm_idx, exc |-> exc]
  /\ llm_idx' = 0
  /\ llm_depth' = 0
  /\ llm_pc' = "raised"
  /\ UNCHANGED <<llm_category, llm_confidence, llm_reasoning, llm_source, llm_written,
                 llm_error>>

row_failed(kind, exc) ==
  /\ llm_status' = [llm_status EXCEPT ![llm_idx] = "failed"]
  /\ llm_event' = [kind |-> kind, row |-> llm_idx, exc |-> exc]
  /\ loop_after(llm_idx)
  /\ UNCHANGED <<llm_category, llm_confidence, llm_reasoning, llm_source, llm_written,
                 llm_error>>

\* lines 346-348: the three result fields are stored in the row
row_classified_TwoColumns(result) ==
  /\ llm_category' = [llm_category EXCEPT ![llm_idx] = V(result.category)]
  /\ llm_confidence' = [llm_confidence EXCEPT ![llm_idx] = V(result.confidence)]
  /\ llm_written' = [llm_written EXCEPT ![llm_idx] = {"llm_category", "llm_confidence"}]
  /\ llm_source' = [llm_source EXCEPT ![llm_idx] = result]
  /\ llm_status' = [llm_status EXCEPT ![llm_idx] = "classified"]
  /\ llm_event' = [kind |-> "classified", row |-> llm_idx, exc |-> ""]
  /\ loop_after(llm_idx)
  /\ UNCHANGED <<llm_reasoning, llm_error>>

row_classified(result) ==
  /\ llm_category' = [llm_category EXCEPT ![llm_idx] = V(result.category)]
  /\ llm_confidence' = [llm_confidence EXCEPT ![llm_idx] = V(result.confidence)]
  /\ llm_reasoning' = [llm_reasoning EXCEPT ![llm_idx] = str_cell(result.reasoning)]
  /\ llm_written' = [llm_written EXCEPT ![llm_idx] = ResultColumns]
  /\ llm_source' = [llm_source EXCEPT ![llm_idx] = result]
  /\ llm_status' = [llm_status EXCEPT ![llm_idx] = "classified"]
  /\ llm_event' = [kind |-> "classified", row |-> llm_idx, exc |-> ""]
  /\ loop_after(llm_idx)
  /\ UNCHANGED llm_error

LlmConfig == <<llm_text, llm_col_ok, llm_provider, llm_has_key, llm_has_pkg>>

\* classify_news, lines 296-339: validation, the three None columns, and the
\* start of the loop (the return when no row has text)
classify_news_begin_KeyFirst ==
  /\ llm_pc = "ready"
  /\ LET n == Len(llm_text)
         first == next_valid(llm_text, 0)
         error == IF ~llm_col_ok THEN "ValueError: not found"
                  ELSE IF ~llm_has_key THEN "ValueError: No API key"
                  ELSE IF llm_provider \notin Providers
                    THEN "ValueError: Unsupported provider"
                  ELSE ""
     IN IF error # ""
          THEN /\ llm_pc' = "raised"
               /\ llm_error' = error
               /\ UNCHANGED <<llm_idx, llm_category, llm_confidence, llm_reasoning,
                              llm_status, llm_event>>
          ELSE /\ llm_category' = Fill(n, None)
               /\ llm_confidence' = Fill(n, None)
               /\ llm_reasoning' = Fill(n, None)
               /\ llm_status' = [i \in 1..n |->
                                   IF isna(llm_text[i]) THEN "skipped" ELSE "pending"]
               /\ llm_idx' = first
               /\ llm_pc' = IF first = 0 THEN "returned" ELSE "loop"
               /\ llm_event' = [kind |-> "begin", row |-> 0, exc |-> ""]
               /\ UNCHANGED llm_error
  /\ UNCHANGED <<LlmConfig, llm_depth, llm_calls, llm_source, llm_written>>
  /\ UNCHANGED <<urlVars, statVars, parseVars, truncVars, cleanVars, legacyVars, raceVars,
                 shimVars, indexVars, frameVars>>

classify_news_begin ==
  /\ llm_pc = "ready"
  /\ LET n == Len(llm_text)
         first == next_valid(llm_text, 0)
         error == IF ~llm_col_ok THEN "ValueError: not found"
                  ELSE IF llm_provider \notin Providers
                    THEN "ValueError: Unsupported provider"
                  ELSE IF ~llm_has_key THEN "ValueError: No API key"
                  ELSE ""
     IN IF error # ""
          THEN /\ llm_pc' = "raised"
               /\ llm_error' = error
               /\ UNCHANGED <<llm_idx, llm_category, llm_confidence, llm_reasoning,
                              llm_status, llm_event>>
          ELSE /\ llm_category' = Fill(n, None)
               /\ llm_confidence' = Fill(n, None)
               /\ llm_reasoning' = Fill(n, None)
               /\ llm_status' = [i \in 1..n |->
                                   IF isna(llm_text[i]) THEN "skipped" ELSE "pending"]
               /\ llm_idx' = first
               /\ llm_pc' = IF first = 0 THEN "returned" ELSE "loop"
               /\ llm_event' = [kind |-> "begin", row |-> 0, exc |-> ""]
               /\ UNCHANGED llm_error
  /\ UNCHANGED <<LlmConfig, llm_depth, llm_calls, llm_source, llm_written>>
  /\ UNCHANGED <<urlVars, statVars, parseVars, truncVars, cleanVars, legacyVars, raceVars,
                 shimVars, indexVars, frameVars>>

\* One call of the provider for the current row, inside _classify_with_claude
\* or _classify_with_openai at recursion depth llm_depth, and what follows it
\* up to the next provider call.
provider_call ==
  /\ llm_pc = "loop"
  /\ llm_has_pkg
  /\ llm_calls' = [llm_calls EXCEPT ![llm_idx] = @ + 1]
  /\ \E out \in {[kind |-> "response", text |-> <<doc>>] : doc \in ProviderDocs}
                \cup {[kind |-> "response", text |-> t] :
                        t \in { <<FenceJson, GoodReply, Fence>>, <<Fence, GoodReply, Fence>>,
                                <<Prose({})>>, <<Prose({"opinion"}), GoodReply>> }}
                \cup {[kind |-> "exception", exc |-> e] :
                        e \in {"rate_limit", "429", "other"}} :
       IF out.kind = "response"
         THEN LET result == _parse_llm_response(out.text, DEFAULT_CATEGORIES)
              IN IF result.error = ""
                   THEN row_classified(result)
                   ELSE row_failed("parse_error", result.error)
       ELSE IF out.exc = "rate_limit" \/ (llm_provider = "openai" /\ out.exc = "429")
         THEN IF llm_depth + 1 < RecursionLimit
                THEN \* time.sleep(1), then the function calls itself
                     /\ llm_depth' = llm_depth + 1
                     /\ llm_event' = [kind |-> "retry", row |-> llm_idx, exc |-> out.exc]
                     /\ UNCHANGED <<llm_pc, llm_idx, llm_category, llm_confidence,
                                    llm_reasoning, llm_status, llm_source, llm_written,
                                    llm_error>>
                ELSE row_failed("recursion_error", "RecursionError")
       ELSE row_failed("error", out.exc)
  /\ UNCHANGED LlmConfig
  /\ UNCHANGED <<urlVars, statVars, parseVars, truncVars, cleanVars, legacyVars, raceVars,
                 shimVars, indexVars, frameVars>>

\* the provider's client package is not installed: the classify function
\* raises ImportError before any provider call, for every row
import_error ==
  /\ llm_pc = "loop"
  /\ ~llm_has_pkg
  /\ row_failed("import_error", "ImportError")
  /\ UNCHANGED <<LlmConfig, llm_calls>>
  /\ UNCHANGED <<urlVars, statVars, parseVars, truncVars, cleanVars, legacyVars, raceVars,
                 shimVars, indexVars, frameVars>>

NextLLM ==
  \/ classify_news_begin
  \/ provider_call
  \/ import_error

(***************************************************************************)
(* The response parser called on its own                                   *)
(***************************************************************************)
\* JSON documents a provider can answer with: every combination of a category,
\* a confidence and a reasoning field (each possibly missing or ill-typed),
\* and two documents that are not objects
ParseDocs ==
  {JsonObject(c, x, r) :
     c \in {"soft_news", "sports", "Soft_News", Absent, JNull, JList},
     x \in {JNum(95), JNum(150), JNum(0 - 50), JNaN, JInfinity, ([j |-> "number", f |-> ([t |-> "-inf"])]),
            JBadString, JNullConf, JAbsentConf},
     r \in {"r", Absent, JNull}}
    \cup {JsonNumber, JsonArray}

\* a document inside a Markdown code fence, with or without the json tag
Fenced(doc, tagged) == <<IF tagged THEN FenceJson ELSE Fence, doc, Fence>>

\* one call _parse_llm_response(response_text, DEFAULT_CATEGORIES)
call_parse_llm_response ==
  /\ parse_in # <<>>
  /\ parse_out = NoResult
  /\ parse_out' = _parse_llm_response(parse_in, DEFAULT_CATEGORIES)
  /\ UNCHANGED <<parse_in, urlVars, statVars, llmVars, truncVars, cleanVars, legacyVars,
                 raceVars, shimVars, indexVars, frameVars>>

(***************************************************************************)
(* Text truncation for the token budget                                    *)
(***************************************************************************)

\* str.rfind(c): the last 0-based position of c in s, -1 when it is absent
rfind(s, c) ==
  IF \E i \in 1..Len(s) : s[i] = c
    THEN (CHOOSE i \in 1..Len(s) : s[i] = c /\ \A j \in (i + 1)..Len(s) : s[j] # c) - 1
    ELSE 0 - 1

\* text[:n]
Prefix(text, n) == SubSeq(text, 1, IF n < Len(text) THEN n ELSE Len(text))

\* llm._truncate_text(text, max_tokens): only the last period is looked for
_truncate_text(text, max_tokens) ==
  LET max_chars == max_tokens * 4
      truncated == Prefix(text, max_chars)
      last_period == rfind(truncated, ".")
  IN IF Len(text) <= max_chars THEN text
     ELSE (IF 5 * last_period > 4 * max_chars        \* last_period > max_chars * 0.8
             THEN Prefix(truncated, last_period + 1)
             ELSE truncated) \o <<".", ".", ".">>

\* utils.truncate_text(text, max_tokens); llm_utils.truncate_for_token_limit
\* consists of the same statements
truncate_text(text, max_tokens) ==
  LET max_chars == max_tokens * 4
      truncated == Prefix(text, max_chars)
      last_period == rfind(truncated, ".")
      last_newline == rfind(truncated, "\n")
      boundary == IF last_period >= last_newline THEN last_period ELSE last_newline
  IN IF Len(text) <= max_chars THEN text
     ELSE (IF 5 * boundary > 4 * max_chars           \* boundary > max_chars * 0.8
             THEN Prefix(truncated, boundary + 1)
             ELSE truncated) \o <<".", ".", ".">>

\* one call of a truncation function
call_truncate ==
  /\ trunc_fn \in {"_truncate_text", "truncate_text", "truncate_for_token_limit"}
  /\ trunc_out = None
  /\ trunc_out' =
       V(IF trunc_fn = "_truncate_text"
           THEN _truncate_text(trunc_text, trunc_max_tokens)
         ELSE truncate_text(trunc_text, trunc_max_tokens))
  /\ UNCHANGED <<trunc_fn, trunc_text, trunc_max_tokens>>
  /\ UNCHANGED <<urlVars, statVars, llmVars, parseVars, cleanVars, legacyVars, raceVars,
                 shimVars, indexVars, frameVars>>

(***************************************************************************)
(* Text normalization (utils.clean_text, normalizer.clean_text)            *)
(***************************************************************************)

\* re.sub(r"\d+", "", text)
remove_digits(t) == SelectSeq(t, LAMBDA ch : ch # "1")

\* "".join([ch for ch in text if ch not in string.punctuation])
remove_punctuation(t) == SelectSeq(t, LAMBDA ch : ch # "!")

\* nltk.word_tokenize on letters and blanks: the maximal runs of letters
RECURSIVE word_tokenize(_)
word_tokenize(t) ==
  IF t = <<>> THEN <<>>
  ELSE IF Head(t) = " " THEN word_tokenize(Tail(t))
  ELSE LET n == IF \E i \in 1..Len(t) : t[i] = " "
                  THEN (CHOOSE i \in 1..Len(t) :
                          t[i] = " " /\ \A j \in 1..(i - 1) : t[j] # " ") - 1
                  ELSE Len(t)
       IN <<SubSeq(t, 1, n)>> \o word_tokenize(SubSeq(t, n + 1, Len(t)))

\* PorterStemmer.stem on these words: a plural ending is dropped
stem(w) == IF Len(w) > 2 /\ w[Len(w)] = "s" /\ w[Len(w) - 1] # "s"
             THEN SubSeq(w, 1, Len(w) - 1) ELSE w

\* " ".join(stems)
RECURSIVE join_words(_)
join_words(ws) ==
  IF ws = <<>> THEN <<>>
  ELSE IF Len(ws) = 1 THEN ws[1]
  ELSE ws[1] \o <<" ">> \o join_words(Tail(ws))

\* lines 85-95 of utils.clean_text and 32-38 of normalizer.clean_text after the
\* digits are removed: text is reassigned by each step, and the except branch
\* returns the text as it is when the step fails
nltk_pipeline(no_digits, fail_at) ==
  LET lowered == str_lower(no_digits)
      text == remove_punctuation(lowered)
      tokens == word_tokenize(text)
      kept == SelectSeq(tokens, LAMBDA w : w \notin ({ <<"a">>, <<"a","s">>, <<"s">> }))
      stems == [i \in 1..Len(kept) |-> stem(kept[i])]
  IN IF fail_at \in {"tokenize", "stopwords"} \/ (fail_at = "stem" /\ kept # <<>>)
       THEN [raised |-> FALSE, value |-> V(text)]
       ELSE [raised |-> FALSE, value |-> V(join_words(stems))]

\* utils.clean_text(text)
utils_clean_text(text, has_nltk, fail_at) ==
  IF ~has_nltk
    THEN [raised |-> FALSE,
          value |-> V(remove_punctuation(remove_digits(
                        str_lower(IF isna(text) THEN (<<"N", "o", "n", "e">>) ELSE text.v))))]
    ELSE nltk_pipeline(remove_digits(IF isna(text) THEN <<>> ELSE text.v), fail_at)

\* normalizer.clean_text(text): re.sub raises TypeError on None inside the try,
\* and the except branch returns text, which is still None
normalizer_clean_text(text, fail_at) ==
  IF isna(text)
    THEN [raised |-> FALSE, value |-> None]
    ELSE nltk_pipeline(remove_digits(text.v), fail_at)

\* one call of clean_text
call_clean_text ==
  /\ clean_fn \in {"utils", "normalizer"}
  /\ clean_out = NoResult
  /\ clean_out' = IF clean_fn = "utils"
                    THEN utils_clean_text(clean_in, clean_has_nltk, clean_fail)
                    ELSE normalizer_clean_text(clean_in, clean_fail)
  /\ UNCHANGED <<clean_fn, clean_in, clean_has_nltk, clean_fail>>
  /\ UNCHANGED <<urlVars, statVars, llmVars, parseVars, truncVars, legacyVars, raceVars,
                 shimVars, indexVars, frameVars>>

(***************************************************************************)
(* Legacy predictors (pred_soft_news_us, pred_soft_news_uk,                *)
(* pred_what_news_us)                                                      *)
(***************************************************************************)
\* cls.pred_...(df, col, latest): the frame either has the column or not, and
\* either holds a text or not; the class attribute model is read before
\* load_model_data is called
pred_legacy ==
  /\ stat_calls < MaxCalls
  /\ \E cls \in LegacyClasses, latest \in BOOLEAN, col_ok \in BOOLEAN, df \in TextBatches :
       \E n1 \in NetChoices(fs, LEGACY_CONFIGS[cls].model_file, latest) :
       \E n2 \in NetChoicesAfter(n1, fs, LEGACY_CONFIGS[cls].vectorizer_file, latest) :
         LET rec == [CallRecord("pred_legacy", cls, df, col_ok) EXCEPT !.latest = latest]
             L == load_model_data(cls, latest, fs, loads, n1, n2)
             loaded == [rec EXCEPT !.fetch_failed = L.fetch_failed, !.deser = L.deser,
                                   !.tried = L.tried]
         IN IF ~col_ok \/ ~any_valid(df)
              THEN /\ stat_last' = rec
                   /\ UNCHANGED <<fs, loads, legacy_model>>
            ELSE IF legacy_model[cls] # "None"
              THEN /\ stat_last' = rec
                   /\ UNCHANGED <<fs, loads, legacy_model>>
            ELSE /\ fs' = L.fs
                 /\ loads' = L.loads
                 /\ legacy_model' = [legacy_model EXCEPT ![cls] =
                                       IF L.outcome = "returned_pair" THEN "loaded" ELSE "None"]
                 /\ stat_last' = IF L.outcome = "returned_pair" THEN loaded
                                 ELSE IF L.outcome = "returned_none"
                                   THEN Raise(loaded, "AttributeError")
                                 ELSE Raise(loaded, "Exception")
  /\ stat_calls' = stat_calls + 1
  /\ UNCHANGED <<_model_cache, all_ok>>
  /\ UNCHANGED <<urlVars, llmVars, parseVars, truncVars, cleanVars, raceVars, shimVars,
                 indexVars, frameVars>>

(***************************************************************************)
(* Two threads in classifiers._load_model                                  *)
(***************************************************************************)
Threads == {1, 2}

\* a file on disk: whether the path exists, and which of its chunks hold data
NoFile == [exists |-> FALSE, chunks |-> {}]

Goto(t, pc) == race_pc' = [race_pc EXCEPT ![t] = pc]

\* lines 94-95: the cache lookup
race_lookup(t) ==
  /\ race_pc[t] = "start"
  /\ Goto(t, IF race_region \in race_cache THEN "done" ELSE "check_model_file")
  /\ UNCHANGED <<race_region, race_chunk, race_file, race_cache, race_net_failed>>
  /\ UNCHANGED <<urlVars, statVars, llmVars, parseVars, truncVars, cleanVars, legacyVars,
                 shimVars, indexVars, frameVars>>

\* _download_model_if_needed up to os.path.exists; after is where _load_model
\* continues when the file exists
race_exists(t, k, after) ==
  /\ race_pc[t] = "check_" \o k
  /\ Goto(t, IF race_file[k].exists THEN after ELSE "get_" \o k)
  /\ UNCHANGED <<race_region, race_chunk, race_file, race_cache, race_net_failed>>
  /\ UNCHANGED <<urlVars, statVars, llmVars, parseVars, truncVars, cleanVars, legacyVars,
                 shimVars, indexVars, frameVars>>

\* download_file up to open(target, "wb"): requests.get succeeds and the file
\* is opened, or it raises, download_file returns False and _load_model raises
race_open(t, k) ==
  /\ race_pc[t] = "get_" \o k
  /\ \/ /\ Goto(t, "write_" \o k)
        /\ race_file' = [race_file EXCEPT ![k] = ([exists |-> TRUE, chunks |-> {}])]
        /\ race_chunk' = [race_chunk EXCEPT ![t] = 0]
        /\ UNCHANGED race_net_failed
     \/ /\ Goto(t, "raised")
        /\ race_net_failed' = TRUE
        /\ UNCHANGED <<race_file, race_chunk>>
  /\ UNCHANGED <<race_region, race_cache>>
  /\ UNCHANGED <<urlVars, statVars, llmVars, parseVars, truncVars, cleanVars, legacyVars,
                 shimVars, indexVars, frameVars>>

\* one turn of the iter_content loop: the next chunk is written at its offset,
\* or the connection breaks; after the last chunk the file is closed
race_write(t, k, after) ==
  /\ race_pc[t] = "write_" \o k
  /\ \/ /\ race_chunk[t] < NumChunks
        /\ race_file' = [race_file EXCEPT ![k].exists = TRUE,
                                          ![k].chunks = @ \cup {race_chunk[t] + 1}]
        /\ race_chunk' = [race_chunk EXCEPT ![t] = @ + 1]
        /\ UNCHANGED <<race_pc, race_net_failed>>
     \/ /\ race_chunk[t] < NumChunks
        /\ Goto(t, "raised")
        /\ race_net_failed' = TRUE
        /\ UNCHANGED <<race_file, race_chunk>>
     \/ /\ race_chunk[t] = NumChunks
        /\ Goto(t, after)
        /\ UNCHANGED <<race_file, race_chunk, race_net_failed>>
  /\ UNCHANGED <<race_region, race_cache>>
  /\ UNCHANGED <<urlVars, statVars, llmVars, parseVars, truncVars, cleanVars, legacyVars,
                 shimVars, indexVars, frameVars>>

\* lines 122-123 and 128-129: joblib.load of one file succeeds when the file
\* holds all its data
race_load(t, k, after) ==
  /\ race_pc[t] = "load_" \o k
  /\ Goto(t, IF race_file[k].exists /\ race_file[k].chunks = 1..NumChunks
               THEN after ELSE "raised")
  /\ UNCHANGED <<race_region, race_chunk, race_file, race_cache, race_net_failed>>
  /\ UNCHANGED <<urlVars, statVars, llmVars, parseVars, truncVars, cleanVars, legacyVars,
                 shimVars, indexVars, frameVars>>

\* lines 125-126: the pair is stored and returned
race_store(t) ==
  /\ race_pc[t] = "store"
  /\ race_cache' = race_cache \cup {race_region}
  /\ Goto(t, "done")
  /\ UNCHANGED <<race_region, race_chunk, race_file, race_net_failed>>
  /\ UNCHANGED <<urlVars, statVars, llmVars, parseVars, truncVars, cleanVars, legacyVars,
                 shimVars, indexVars, frameVars>>

NextRace ==
  \/ \E t \in Threads : race_lookup(t)
  \/ \E t \in Threads : race_exists(t, "model_file", "check_vectorizer_file")
  \/ \E t \in Threads : race_open(t, "model_file")
  \/ \E t \in Threads : race_write(t, "model_file", "check_vectorizer_file")
  \/ \E t \in Threads : race_exists(t, "vectorizer_file", "load_model_file")
  \/ \E t \in Threads : race_open(t, "vectorizer_file")
  \/ \E t \in Threads : race_write(t, "vectorizer_file", "load_model_file")
  \/ \E t \in Threads : race_load(t, "model_file", "load_vectorizer_file")
  \/ \E t \in Threads : race_load(t, "vectorizer_file", "store")
  \/ \E t \in Threads : race_store(t)

(***************************************************************************)
(* Compatibility shims applied after deserialization (pred_soft_news.py)   *)
(***************************************************************************)
\* an attribute the object does not have
Missing == [missing |-> TRUE]

\* hasattr(obj, name), given the value of the attribute
has(value) == value # Missing

AttrVals(v) == {Missing, V(v)}

copy_missing_Overwrite(target, source) == IF has(source) THEN source ELSE target

\* if hasattr(obj, source) and not hasattr(obj, target): obj.target = obj.source
copy_missing(target, source) ==
  IF has(source) /\ ~has(target) THEN source ELSE target

\* IsotonicRegression._build_f(X, y) sets f_ from the thresholds
_build_f(X, y) == [built_from |-> <<X, y>>]

\* _fix_isotonic_regression_compatibility(obj)
_fix_isotonic_regression_compatibility(obj) ==
  IF ~obj.isotonic THEN obj
  ELSE LET o1 == [obj EXCEPT !.X_thresholds_ = copy_missing(@, obj._necessary_X_)]
           o2 == [o1 EXCEPT !.y_thresholds_ = copy_missing(@, o1._necessary_y_)]
       IN IF ~has(o2.f_) /\ has(o2.X_thresholds_) /\ has(o2.y_thresholds_)
            THEN [o2 EXCEPT !.f_ = _build_f(o2.X_thresholds_, o2.y_thresholds_)]
            ELSE o2

\* lines 74-95: one _CalibratedClassifier.  Its calibrators live in heap; the
\* attributes calibrators_ and calibrators hold lists of references into it.
fix_calibrated_clf(clf) ==
  LET c1 == [clf EXCEPT !.estimator = copy_missing(@, clf.base_estimator)]
      c2 == [c1 EXCEPT !.calibrators = copy_missing(@, c1.calibrators_)]
  IN IF has(c2.calibrators)
       THEN [c2 EXCEPT !.heap =
               [i \in 1..Len(@) |->
                  IF \E j \in 1..Len(c2.calibrators.v) : c2.calibrators.v[j] = i
                    THEN _fix_isotonic_regression_compatibility(@[i])
                    ELSE @[i]]]
       ELSE c2

\* lines 59-98 of load_model_data: the calibrated classifier
fix_model(model) ==
  IF ~model.calibrated THEN model
  ELSE LET m1 == [model EXCEPT !.estimator = copy_missing(@, model.base_estimator)]
       IN IF has(m1.calibrated_classifiers_)
            THEN [m1 EXCEPT !.calibrated_classifiers_ =
                    V([i \in 1..Len(@.v) |-> fix_calibrated_clf(@.v[i])])]
            ELSE m1

\* _fix_vectorizer_compatibility(vect)
_fix_vectorizer_compatibility(vect) ==
  IF ~vect.is_vectorizer THEN vect
  ELSE IF ~has(vect._tfidf) THEN vect
  ELSE IF ~vect._tfidf.is_transformer THEN vect
  ELSE [vect EXCEPT
          !._tfidf.idf_ = copy_missing(@, vect.idf_),
          !._tfidf.vocabulary_ = copy_missing(@, vect.vocabulary_),
          !._tfidf.norm = copy_missing(@, vect.norm),
          !._tfidf.sublinear_tf = copy_missing(@, vect.sublinear_tf)]

\* the deserialized objects
Calibrators ==
  [isotonic : BOOLEAN, _necessary_X_ : AttrVals("nX"), X_thresholds_ : AttrVals("tX"),
   _necessary_y_ : AttrVals("nY"), y_thresholds_ : AttrVals("tY"), f_ : AttrVals("f")]

NoCalibrator ==
  [isotonic |-> FALSE, _necessary_X_ |-> Missing, X_thresholds_ |-> Missing,
   _necessary_y_ |-> Missing, y_thresholds_ |-> Missing, f_ |-> Missing]

ShimModels ==
  LET FoldCalibrators ==
        {k \in Calibrators : /\ has(k._necessary_X_) = has(k._necessary_y_)
                             /\ has(k.X_thresholds_) = has(k.y_thresholds_)
                             /\ ~k.isotonic => k = NoCalibrator}
      CalibratedClassifiers ==
        {clf \in [base_estimator : AttrVals("be"), estimator : AttrVals("e"),
                  calibrators_ : AttrVals(<<1>>), calibrators : AttrVals(<<1>>),
                  heap : {<<c>> : c \in FoldCalibrators}] :
           (~has(clf.calibrators_) /\ ~has(clf.calibrators))
              => clf.heap = <<NoCalibrator>>}
  IN {m \in [calibrated : BOOLEAN, base_estimator : AttrVals("be"),
             estimator : AttrVals("e"),
             calibrated_classifiers_ :
               {Missing} \cup {V(l) : l \in SeqsUpTo(CalibratedClassifiers, MaxFolds)}] :
        ~m.calibrated => ~has(m.calibrated_classifiers_)}

ShimVectorizers ==
  {v \in [is_vectorizer : BOOLEAN,
          _tfidf : {Missing, [is_transformer |-> FALSE]}
                     \cup [is_transformer : {TRUE}, idf_ : AttrVals("t_idf"),
                           vocabulary_ : AttrVals("t_voc"), norm : AttrVals("t_norm"),
                           sublinear_tf : AttrVals("t_sub")],
          idf_ : AttrVals("idf"), vocabulary_ : AttrVals("voc"),
          norm : AttrVals("l2"), sublinear_tf : AttrVals("sub")] :
     (~v.is_vectorizer \/ ~has(v._tfidf) \/ ~v._tfidf.is_transformer)
        => (~has(v.idf_) /\ ~has(v.vocabulary_) /\ has(v.norm) /\ has(v.sublinear_tf))}

\* the shims run over the object once more
apply_shims ==
  /\ shim_kind # "none"
  /\ shim_count < 2
  /\ shim_obj' = IF shim_kind = "model" THEN fix_model(shim_obj)
                 ELSE IF shim_kind = "calibrator"
                   THEN _fix_isotonic_regression_compatibility(shim_obj)
                 ELSE _fix_vectorizer_compatibility(shim_obj)
  /\ shim_once' = IF shim_count = 0 THEN shim_obj' ELSE shim_once
  /\ shim_count' = shim_count + 1
  /\ UNCHANGED <<shim_kind, shim_orig>>
  /\ UNCHANGED <<urlVars, statVars, llmVars, parseVars, truncVars, cleanVars, legacyVars,
                 raceVars, indexVars, frameVars>>

(***************************************************************************)
(* The frames the unified functions take and return                        *)
(***************************************************************************)
UnifiedFunctions ==
  {"classify_by_url", "predict_soft_news", "predict_news_category", "classify_news"}

\* the columns each function appends
Appended(fn) ==
  IF fn = "classify_by_url" THEN {"hard_news", "soft_news"}
  ELSE IF fn = "predict_soft_news" THEN {"prob_soft_news_us", "prob_soft_news_uk"}
  ELSE IF fn = "predict_news_category" THEN {"pred_category", "prob_soft_news"}
  ELSE ResultColumns

\* the frames passed to fn: with or without the data column, with or without
\* a second column
InputFrames(fn) ==
  UNION { LET data == IF fn = "classify_by_url"
                        THEN {"url" :> c : c \in [1..n -> {None, V(<<"w", "a", "r">>)}]}
                        ELSE {"text" :> c : c \in [1..n -> {None, V("B")}]}
              other == {name :> [i \in 1..n |-> V("x")] :
                          name \in {"label"} \cup UNION {Appended(g) : g \in UnifiedFunctions}}
          IN data \cup other \cup {d @@ o : d \in data, o \in other}
          : n \in 1..MaxFrameRows }

Rows(frame) == Len(frame[CHOOSE c \in DOMAIN frame : TRUE])

\* result_df = df.copy(): a new object with the columns of df
df_copy(heap) == [ref |-> "result_df", heap |-> [heap EXCEPT !.result_df = heap.df]]

\* frame[name] = column, on the object ref points to
setitem(c, name, column) ==
  [c EXCEPT !.heap[c.ref] = (name :> column) @@ c.heap[c.ref]]

frame_raise ==
  /\ frame_out' = [outcome |-> "raised", ref |-> "none"]
  /\ UNCHANGED frame_heap

frame_return(c) ==
  /\ frame_out' = [outcome |-> "returned", ref |-> c.ref]
  /\ frame_heap' = c.heap

frame_call(fn) ==
  /\ frame_fn = fn
  /\ frame_out = NoResult
  /\ UNCHANGED <<frame_fn, frame_in>>
  /\ UNCHANGED <<urlVars, statVars, llmVars, parseVars, truncVars, cleanVars, legacyVars,
                 raceVars, shimVars, indexVars>>

\* classify_by_url(df, "url", region)
frame_classify_by_url ==
  /\ frame_call("classify_by_url")
  /\ \E region \in Regions \cup {"fr"} :
       LET df == frame_heap.df
       IN IF "url" \notin DOMAIN df \/ region \notin DOMAIN URL_PATTERNS
            THEN frame_raise
            ELSE LET flags == [i \in 1..Rows(df) |-> classify_url(df["url"][i], region)]
                     c0 == df_copy(frame_heap)
                     c1 == setitem(c0, "hard_news", [i \in 1..Rows(df) |-> flags[i].hard_news])
                     c2 == setitem(c1, "soft_news", [i \in 1..Rows(df) |-> flags[i].soft_news])
                 IN frame_return(c2)

\* predict_soft_news(df, "text", region)
frame_predict_soft_news ==
  /\ frame_call("predict_soft_news")
  /\ \E region \in Regions \cup {"fr"}, load_raises \in BOOLEAN, vec_raises \in BOOLEAN,
        proba_raises \in BOOLEAN :
       LET df == frame_heap.df
           n == Rows(df)
       IN IF "text" \notin DOMAIN df \/ region \notin DOMAIN MODEL_CONFIGS
            THEN frame_raise
          ELSE IF ~any_valid(df["text"])
            THEN frame_return(setitem(df_copy(frame_heap), ProbColumn[region], Fill(n, None)))
          ELSE IF load_raises \/ vec_raises
            THEN frame_raise
          ELSE IF proba_raises
            THEN frame_return(setitem(df_copy(frame_heap), ProbColumn[region], Fill(n, None)))
          ELSE frame_return(setitem(df_copy(frame_heap), ProbColumn[region],
                                    predict_column(region, soft_text_data(df["text"]))))

\* predict_news_category(df, "text")
frame_predict_news_category ==
  /\ frame_call("predict_news_category")
  /\ \E load_raises \in BOOLEAN, predict_raises \in BOOLEAN :
       LET df == frame_heap.df
           n == Rows(df)
           two(c, category, prob) ==
             setitem(setitem(c, "pred_category", category), "prob_soft_news", prob)
       IN IF "text" \notin DOMAIN df \/ load_raises
            THEN frame_raise
          ELSE IF ~any_valid(df["text"])
            THEN frame_return(two(df_copy(frame_heap), Fill(n, None), Fill(n, None)))
          ELSE IF predict_raises
            THEN frame_return(two(df_copy(frame_heap), Fill(n, V("Other")), Fill(n, V(50))))
          ELSE LET text_data == category_text_data(df["text"])
               IN frame_return(two(df_copy(frame_heap),
                                   [i \in 1..n |-> V(category_predict[text_data[i]])],
                                   assign_series(RangeIndex(n),
                                     [i \in 1..n |-> V(soft_sum[text_data[i]])])))

\* classify_news(df, "text", provider, ...): the rows in done are the ones
\* whose provider call and parse succeed
frame_classify_news ==
  /\ frame_call("classify_news")
  /\ \E config_ok \in BOOLEAN :
       LET df == frame_heap.df
           n == Rows(df)
       IN IF "text" \notin DOMAIN df \/ ~config_ok
            THEN frame_raise
            ELSE \E done \in SUBSET {i \in 1..n : ~isna(df["text"][i])} :
                   LET result == _parse_llm_response(<<GoodReply>>, DEFAULT_CATEGORIES)
                       cell(i, value) == IF i \in done THEN value ELSE None
                       c0 == df_copy(frame_heap)
                       c1 == setitem(c0, "llm_category",
                                     [i \in 1..n |-> cell(i, V(result.category))])
                       c2 == setitem(c1, "llm_confidence",
                                     [i \in 1..n |-> cell(i, V(result.confidence))])
                       c3 == setitem(c2, "llm_reasoning",
                                     [i \in 1..n |-> cell(i, str_cell(result.reasoning))])
                   IN frame_return(c3)

NextFrame ==
  \/ frame_classify_by_url
  \/ frame_predict_soft_news
  \/ frame_predict_news_category
  \/ frame_classify_news

(***************************************************************************)
(* Specifications                                                          *)
(***************************************************************************)
\* the arguments of one classify_by_url call; the statistical path is not used
InitUrl ==
  /\ url_df \in SeqsUpTo({V(Flatten(frags)) :
                          frags \in SeqsUpTo({ <<"w","a","r">>, <<"a","r","t","s">>,
                                               <<"l","o","c","a","l">> }, MaxFrags)}
                          \cup {None},
                        MaxUrlRows) \ {<<>>}
  /\ url_col_ok \in BOOLEAN
  /\ url_region \in Regions \cup {"fr"}
  /\ url_pc = "ready"
  /\ url_result = <<>>
  /\ url_searched = <<>>
  /\ fs = [f \in Files |-> "absent"]
  /\ _model_cache = {}
  /\ loads = [f \in Files |-> 0]
  /\ stat_calls = 0
  /\ all_ok = TRUE
  /\ stat_last = CallRecord("none", "", <<>>, TRUE)
  /\ llm_text = <<>>
  /\ llm_col_ok = TRUE
  /\ llm_provider = "claude"
  /\ llm_has_key = TRUE
  /\ llm_has_pkg = TRUE
  /\ llm_pc = "idle"
  /\ llm_error = ""
  /\ llm_idx = 0
  /\ llm_depth = 0
  /\ llm_category = <<>>
  /\ llm_confidence = <<>>
  /\ llm_reasoning = <<>>
  /\ llm_calls = <<>>
  /\ llm_status = <<>>
  /\ llm_source = <<>>
  /\ llm_written = <<>>
  /\ llm_event = [kind |-> "none", row |-> 0, exc |-> ""]
  /\ parse_in = <<>>
  /\ parse_out = NoResult
  /\ frame_fn = "none"
  /\ frame_in = NoColumns
  /\ frame_heap = [df |-> NoColumns, result_df |-> NoColumns]
  /\ frame_out = NoResult
  /\ labelled_frames = FALSE
  /\ shim_kind = "none"
  /\ shim_orig = Missing
  /\ shim_obj = Missing
  /\ shim_once = Missing
  /\ shim_count = 0
  /\ race_region = "us"
  /\ race_pc = [t \in Threads |-> "done"]
  /\ race_chunk = [t \in Threads |-> 0]
  /\ race_file = [k \in {"model_file", "vectorizer_file"} |-> NoFile]
  /\ race_cache = {}
  /\ race_net_failed = FALSE
  /\ legacy_model = [c \in LegacyClasses |-> "None"]
  /\ clean_fn = "none"
  /\ clean_in = None
  /\ clean_has_nltk = TRUE
  /\ clean_fail = "none"
  /\ clean_out = NoResult
  /\ trunc_fn = "none"
  /\ trunc_text = <<>>
  /\ trunc_max_tokens = 0
  /\ trunc_out = None

\* a fresh process: the artifacts are all still to be downloaded, or all already on
\* disk from an earlier run; nothing is loaded; the URL matcher is not used
InitStat ==
  /\ fs \in {[f \in Files |-> "absent"], [f \in Files |-> "ok"]}
  /\ _model_cache = {}
  /\ loads = [f \in Files |-> 0]
  /\ stat_calls = 0
  /\ all_ok = TRUE
  /\ stat_last = CallRecord("none", "", <<>>, TRUE)
  /\ url_df = <<None>>
  /\ url_col_ok = TRUE
  /\ url_region = "us"
  /\ url_pc = "idle"
  /\ url_result = <<>>
  /\ url_searched = <<>>
  /\ llm_text = <<>>
  /\ llm_col_ok = TRUE
  /\ llm_provider = "claude"
  /\ llm_has_key = TRUE
  /\ llm_has_pkg = TRUE
  /\ llm_pc = "idle"
  /\ llm_error = ""
  /\ llm_idx = 0
  /\ llm_depth = 0
  /\ llm_category = <<>>
  /\ llm_confidence = <<>>
  /\ llm_reasoning = <<>>
  /\ llm_calls = <<>>
  /\ llm_status = <<>>
  /\ llm_source = <<>>
  /\ llm_written = <<>>
  /\ llm_event = [kind |-> "none", row |-> 0, exc |-> ""]
  /\ parse_in = <<>>
  /\ parse_out = NoResult
  /\ frame_fn = "none"
  /\ frame_in = NoColumns
  /\ frame_heap = [df |-> NoColumns, result_df |-> NoColumns]
  /\ frame_out = NoResult
  /\ labelled_frames = FALSE
  /\ shim_kind = "none"
  /\ shim_orig = Missing
  /\ shim_obj = Missing
  /\ shim_once = Missing
  /\ shim_count = 0
  /\ race_region = "us"
  /\ race_pc = [t \in Threads |-> "done"]
  /\ race_chunk = [t \in Threads |-> 0]
  /\ race_file = [k \in {"model_file", "vectorizer_file"} |-> NoFile]
  /\ race_cache = {}
  /\ race_net_failed = FALSE
  /\ legacy_model = [c \in LegacyClasses |-> "None"]
  /\ clean_fn = "none"
  /\ clean_in = None
  /\ clean_has_nltk = TRUE
  /\ clean_fail = "none"
  /\ clean_out = NoResult
  /\ trunc_fn = "none"
  /\ trunc_text = <<>>
  /\ trunc_max_tokens = 0
  /\ trunc_out = None

\* the arguments and environment of one classify_news call
InitLLM ==
  /\ llm_text \in SeqsUpTo({None, V("t")}, MaxLlmRows)
  /\ llm_col_ok \in BOOLEAN
  /\ llm_provider \in Providers \cup {"gemini"}
  /\ llm_has_key \in BOOLEAN
  /\ llm_has_pkg \in BOOLEAN
  /\ llm_pc = "ready"
  /\ llm_error = ""
  /\ llm_idx = 0
  /\ llm_depth = 0
  /\ llm_category = <<>>
  /\ llm_confidence = <<>>
  /\ llm_reasoning = <<>>
  /\ llm_calls = [i \in 1..Len(llm_text) |-> 0]
  /\ llm_status = [i \in 1..Len(llm_text) |-> "pending"]
  /\ llm_source = [i \in 1..Len(llm_text) |-> NoResult]
  /\ llm_written = [i \in 1..Len(llm_text) |-> {}]
  /\ llm_event = [kind |-> "none", row |-> 0, exc |-> ""]
  /\ url_df = <<None>>
  /\ url_col_ok = TRUE
  /\ url_region = "us"
  /\ url_pc = "idle"
  /\ url_result = <<>>
  /\ url_searched = <<>>
  /\ fs = [f \in Files |-> "absent"]
  /\ _model_cache = {}
  /\ loads = [f \in Files |-> 0]
  /\ stat_calls = 0
  /\ all_ok = TRUE
  /\ stat_last = CallRecord("none", "", <<>>, TRUE)
  /\ parse_in = <<>>
  /\ parse_out = NoResult
  /\ frame_fn = "none"
  /\ frame_in = NoColumns
  /\ frame_heap = [df |-> NoColumns, result_df |-> NoColumns]
  /\ frame_out = NoResult
  /\ labelled_frames = FALSE
  /\ shim_kind = "none"
  /\ shim_orig = Missing
  /\ shim_obj = Missing
  /\ shim_once = Missing
  /\ shim_count = 0
  /\ race_region = "us"
  /\ race_pc = [t \in Threads |-> "done"]
  /\ race_chunk = [t \in Threads |-> 0]
  /\ race_file = [k \in {"model_file", "vectorizer_file"} |-> NoFile]
  /\ race_cache = {}
  /\ race_net_failed = FALSE
  /\ legacy_model = [c \in LegacyClasses |-> "None"]
  /\ clean_fn = "none"
  /\ clean_in = None
  /\ clean_has_nltk = TRUE
  /\ clean_fail = "none"
  /\ clean_out = NoResult
  /\ trunc_fn = "none"
  /\ trunc_text = <<>>
  /\ trunc_max_tokens = 0
  /\ trunc_out = None

\* the argument of one _parse_llm_response call
InitParse ==
  /\ parse_in \in {<<doc>> : doc \in ParseDocs}
                     \cup {Fenced(doc, tagged) : doc \in ParseDocs, tagged \in BOOLEAN}
                     \cup {<<FenceJson, doc>> : doc \in ParseDocs}
                     \cup {<<Prose({"opinion"})>> \o Fenced(doc, TRUE) : doc \in ParseDocs}
                     \cup {<<Prose({})>>, <<Prose({"opinion"})>>,
                           <<Prose({"opinion"}), GoodReply>>}
  /\ parse_out = NoResult
  /\ frame_fn = "none"
  /\ frame_in = NoColumns
  /\ frame_heap = [df |-> NoColumns, result_df |-> NoColumns]
  /\ frame_out = NoResult
  /\ labelled_frames = FALSE
  /\ shim_kind = "none"
  /\ shim_orig = Missing
  /\ shim_obj = Missing
  /\ shim_once = Missing
  /\ shim_count = 0
  /\ race_region = "us"
  /\ race_pc = [t \in Threads |-> "done"]
  /\ race_chunk = [t \in Threads |-> 0]
  /\ race_file = [k \in {"model_file", "vectorizer_file"} |-> NoFile]
  /\ race_cache = {}
  /\ race_net_failed = FALSE
  /\ legacy_model = [c \in LegacyClasses |-> "None"]
  /\ clean_fn = "none"
  /\ clean_in = None
  /\ clean_has_nltk = TRUE
  /\ clean_fail = "none"
  /\ clean_out = NoResult
  /\ trunc_fn = "none"
  /\ trunc_text = <<>>
  /\ trunc_max_tokens = 0
  /\ trunc_out = None
  /\ url_df = <<None>>
  /\ url_col_ok = TRUE
  /\ url_region = "us"
  /\ url_pc = "idle"
  /\ url_result = <<>>
  /\ url_searched = <<>>
  /\ fs = [f \in Files |-> "absent"]
  /\ _model_cache = {}
  /\ loads = [f \in Files |-> 0]
  /\ stat_calls = 0
  /\ all_ok = TRUE
  /\ stat_last = CallRecord("none", "", <<>>, TRUE)
  /\ llm_text = <<>>
  /\ llm_col_ok = TRUE
  /\ llm_provider = "claude"
  /\ llm_has_key = TRUE
  /\ llm_has_pkg = TRUE
  /\ llm_pc = "idle"
  /\ llm_error = ""
  /\ llm_idx = 0
  /\ llm_depth = 0
  /\ llm_category = <<>>
  /\ llm_confidence = <<>>
  /\ llm_reasoning = <<>>
  /\ llm_calls = <<>>
  /\ llm_status = <<>>
  /\ llm_source = <<>>
  /\ llm_written = <<>>
  /\ llm_event = [kind |-> "none", row |-> 0, exc |-> ""]

\* the arguments of one call of either URL matcher, on URLs in upper or mixed case
InitUrlCase ==
  /\ url_df \in SeqsUpTo({V(Flatten(frags)) :
                          frags \in SeqsUpTo({ <<"W","A","R">>, <<"A","r","t","s">>,
                                               <<" ">> }, MaxFrags)}
                          \cup {None},
                        MaxUrlRows) \ {<<>>}
  /\ url_col_ok \in BOOLEAN
  /\ url_region \in Regions \cup {"fr"}
  /\ url_pc = "ready"
  /\ url_result = <<>>
  /\ url_searched = <<>>
  /\ fs = [f \in Files |-> "absent"]
  /\ _model_cache = {}
  /\ loads = [f \in Files |-> 0]
  /\ stat_calls = 0
  /\ all_ok = TRUE
  /\ stat_last = CallRecord("none", "", <<>>, TRUE)
  /\ llm_text = <<>>
  /\ llm_col_ok = TRUE
  /\ llm_provider = "claude"
  /\ llm_has_key = TRUE
  /\ llm_has_pkg = TRUE
  /\ llm_pc = "idle"
  /\ llm_error = ""
  /\ llm_idx = 0
  /\ llm_depth = 0
  /\ llm_category = <<>>
  /\ llm_confidence = <<>>
  /\ llm_reasoning = <<>>
  /\ llm_calls = <<>>
  /\ llm_status = <<>>
  /\ llm_source = <<>>
  /\ llm_written = <<>>
  /\ llm_event = [kind |-> "none", row |-> 0, exc |-> ""]
  /\ parse_in = <<>>
  /\ parse_out = NoResult
  /\ frame_fn = "none"
  /\ frame_in = NoColumns
  /\ frame_heap = [df |-> NoColumns, result_df |-> NoColumns]
  /\ frame_out = NoResult
  /\ labelled_frames = FALSE
  /\ shim_kind = "none"
  /\ shim_orig = Missing
  /\ shim_obj = Missing
  /\ shim_once = Missing
  /\ shim_count = 0
  /\ race_region = "us"
  /\ race_pc = [t \in Threads |-> "done"]
  /\ race_chunk = [t \in Threads |-> 0]
  /\ race_file = [k \in {"model_file", "vectorizer_file"} |-> NoFile]
  /\ race_cache = {}
  /\ race_net_failed = FALSE
  /\ legacy_model = [c \in LegacyClasses |-> "None"]
  /\ clean_fn = "none"
  /\ clean_in = None
  /\ clean_has_nltk = TRUE
  /\ clean_fail = "none"
  /\ clean_out = NoResult
  /\ trunc_fn = "none"
  /\ trunc_text = <<>>
  /\ trunc_max_tokens = 0
  /\ trunc_out = None

\* url_pc tells which of the two functions the process calls: "ready" for one
\* classify_by_url call on a batch of null and non-null URLs, "idle" for
\* predict_soft_news calls with the artifacts all absent or all on disk
InitFailFast ==
  /\ url_pc \in {"ready", "idle"}
  /\ url_df \in (IF url_pc = "ready"
                  THEN SeqsUpTo({None, V(<<"w","a","r">>)}, MaxUrlRows) \ {<<>>}
                  ELSE {<<None>>})
  /\ url_col_ok \in (IF url_pc = "ready" THEN BOOLEAN ELSE {TRUE})
  /\ url_region \in (IF url_pc = "ready" THEN Regions \cup {"fr"} ELSE {"us"})
  /\ url_result = <<>>
  /\ url_searched = <<>>
  /\ fs \in (IF url_pc = "idle"
              THEN {[f \in Files |-> "absent"], [f \in Files |-> "ok"]}
              ELSE {[f \in Files |-> "absent"]})
  /\ _model_cache = {}
  /\ loads = [f \in Files |-> 0]
  /\ stat_calls = 0
  /\ all_ok = TRUE
  /\ stat_last = CallRecord("none", "", <<>>, TRUE)
  /\ llm_text = <<>>
  /\ llm_col_ok = TRUE
  /\ llm_provider = "claude"
  /\ llm_has_key = TRUE
  /\ llm_has_pkg = TRUE
  /\ llm_pc = "idle"
  /\ llm_error = ""
  /\ llm_idx = 0
  /\ llm_depth = 0
  /\ llm_category = <<>>
  /\ llm_confidence = <<>>
  /\ llm_reasoning = <<>>
  /\ llm_calls = <<>>
  /\ llm_status = <<>>
  /\ llm_source = <<>>
  /\ llm_written = <<>>
  /\ llm_event = [kind |-> "none", row |-> 0, exc |-> ""]
  /\ parse_in = <<>>
  /\ parse_out = NoResult
  /\ frame_fn = "none"
  /\ frame_in = NoColumns
  /\ frame_heap = [df |-> NoColumns, result_df |-> NoColumns]
  /\ frame_out = NoResult
  /\ labelled_frames = FALSE
  /\ shim_kind = "none"
  /\ shim_orig = Missing
  /\ shim_obj = Missing
  /\ shim_once = Missing
  /\ shim_count = 0
  /\ race_region = "us"
  /\ race_pc = [t \in Threads |-> "done"]
  /\ race_chunk = [t \in Threads |-> 0]
  /\ race_file = [k \in {"model_file", "vectorizer_file"} |-> NoFile]
  /\ race_cache = {}
  /\ race_net_failed = FALSE
  /\ legacy_model = [c \in LegacyClasses |-> "None"]
  /\ clean_fn = "none"
  /\ clean_in = None
  /\ clean_has_nltk = TRUE
  /\ clean_fail = "none"
  /\ clean_out = NoResult
  /\ trunc_fn = "none"
  /\ trunc_text = <<>>
  /\ trunc_max_tokens = 0
  /\ trunc_out = None

\* the arguments of one truncation call
InitTrunc ==
  /\ trunc_fn \in {"_truncate_text", "truncate_text", "truncate_for_token_limit"}
  /\ trunc_text \in {[i \in 1..p |-> "a"] \o t :
                        p \in 0..MaxPad, t \in SeqsUpTo({"a", ".", "\n"}, MaxTail)}
  /\ trunc_max_tokens \in 1..MaxTokens
  /\ trunc_out = None
  /\ parse_in = <<>>
  /\ parse_out = NoResult
  /\ frame_fn = "none"
  /\ frame_in = NoColumns
  /\ frame_heap = [df |-> NoColumns, result_df |-> NoColumns]
  /\ frame_out = NoResult
  /\ labelled_frames = FALSE
  /\ shim_kind = "none"
  /\ shim_orig = Missing
  /\ shim_obj = Missing
  /\ shim_once = Missing
  /\ shim_count = 0
  /\ race_region = "us"
  /\ race_pc = [t \in Threads |-> "done"]
  /\ race_chunk = [t \in Threads |-> 0]
  /\ race_file = [k \in {"model_file", "vectorizer_file"} |-> NoFile]
  /\ race_cache = {}
  /\ race_net_failed = FALSE
  /\ legacy_model = [c \in LegacyClasses |-> "None"]
  /\ clean_fn = "none"
  /\ clean_in = None
  /\ clean_has_nltk = TRUE
  /\ clean_fail = "none"
  /\ clean_out = NoResult
  /\ url_df = <<None>>
  /\ url_col_ok = TRUE
  /\ url_region = "us"
  /\ url_pc = "idle"
  /\ url_result = <<>>
  /\ url_searched = <<>>
  /\ fs = [f \in Files |-> "absent"]
  /\ _model_cache = {}
  /\ loads = [f \in Files |-> 0]
  /\ stat_calls = 0
  /\ all_ok = TRUE
  /\ stat_last = CallRecord("none", "", <<>>, TRUE)
  /\ llm_text = <<>>
  /\ llm_col_ok = TRUE
  /\ llm_provider = "claude"
  /\ llm_has_key = TRUE
  /\ llm_has_pkg = TRUE
  /\ llm_pc = "idle"
  /\ llm_error = ""
  /\ llm_idx = 0
  /\ llm_depth = 0
  /\ llm_category = <<>>
  /\ llm_confidence = <<>>
  /\ llm_reasoning = <<>>
  /\ llm_calls = <<>>
  /\ llm_status = <<>>
  /\ llm_source = <<>>
  /\ llm_written = <<>>
  /\ llm_event = [kind |-> "none", row |-> 0, exc |-> ""]

SpecTrunc == InitTrunc /\ [][(call_truncate)]_vars

\* the argument of one clean_text call, and the NLTK step that fails in it
InitClean ==
  /\ clean_fn \in {"utils", "normalizer"}
  /\ clean_in \in {V(t) : t \in (SeqsUpTo(({"A", "a", "s", "1", "!", " "}), MaxCleanLen))} \cup {None}
  /\ clean_has_nltk \in (IF clean_fn = "utils" THEN BOOLEAN ELSE {TRUE})
  /\ clean_fail \in {"none", "tokenize", "stopwords", "stem"}
  /\ clean_out = NoResult
  /\ parse_in = <<>>
  /\ parse_out = NoResult
  /\ frame_fn = "none"
  /\ frame_in = NoColumns
  /\ frame_heap = [df |-> NoColumns, result_df |-> NoColumns]
  /\ frame_out = NoResult
  /\ labelled_frames = FALSE
  /\ shim_kind = "none"
  /\ shim_orig = Missing
  /\ shim_obj = Missing
  /\ shim_once = Missing
  /\ shim_count = 0
  /\ race_region = "us"
  /\ race_pc = [t \in Threads |-> "done"]
  /\ race_chunk = [t \in Threads |-> 0]
  /\ race_file = [k \in {"model_file", "vectorizer_file"} |-> NoFile]
  /\ race_cache = {}
  /\ race_net_failed = FALSE
  /\ legacy_model = [c \in LegacyClasses |-> "None"]
  /\ trunc_fn = "none"
  /\ trunc_text = <<>>
  /\ trunc_max_tokens = 0
  /\ trunc_out = None
  /\ url_df = <<None>>
  /\ url_col_ok = TRUE
  /\ url_region = "us"
  /\ url_pc = "idle"
  /\ url_result = <<>>
  /\ url_searched = <<>>
  /\ fs = [f \in Files |-> "absent"]
  /\ _model_cache = {}
  /\ loads = [f \in Files |-> 0]
  /\ stat_calls = 0
  /\ all_ok = TRUE
  /\ stat_last = CallRecord("none", "", <<>>, TRUE)
  /\ llm_text = <<>>
  /\ llm_col_ok = TRUE
  /\ llm_provider = "claude"
  /\ llm_has_key = TRUE
  /\ llm_has_pkg = TRUE
  /\ llm_pc = "idle"
  /\ llm_error = ""
  /\ llm_idx = 0
  /\ llm_depth = 0
  /\ llm_category = <<>>
  /\ llm_confidence = <<>>
  /\ llm_reasoning = <<>>
  /\ llm_calls = <<>>
  /\ llm_status = <<>>
  /\ llm_source = <<>>
  /\ llm_written = <<>>
  /\ llm_event = [kind |-> "none", row |-> 0, exc |-> ""]

SpecClean == InitClean /\ [][(call_clean_text)]_vars

\* a fresh process that calls the legacy predictors: no class holds a model
InitLegacy ==
  /\ fs \in {[f \in Files |-> "absent"], [f \in Files |-> "ok"]}
  /\ _model_cache = {}
  /\ loads = [f \in Files |-> 0]
  /\ stat_calls = 0
  /\ all_ok = TRUE
  /\ stat_last = CallRecord("none", "", <<>>, TRUE)
  /\ legacy_model = [c \in LegacyClasses |-> "None"]
  /\ parse_in = <<>>
  /\ parse_out = NoResult
  /\ frame_fn = "none"
  /\ frame_in = NoColumns
  /\ frame_heap = [df |-> NoColumns, result_df |-> NoColumns]
  /\ frame_out = NoResult
  /\ labelled_frames = FALSE
  /\ shim_kind = "none"
  /\ shim_orig = Missing
  /\ shim_obj = Missing
  /\ shim_once = Missing
  /\ shim_count = 0
  /\ race_region = "us"
  /\ race_pc = [t \in Threads |-> "done"]
  /\ race_chunk = [t \in Threads |-> 0]
  /\ race_file = [k \in {"model_file", "vectorizer_file"} |-> NoFile]
  /\ race_cache = {}
  /\ race_net_failed = FALSE
  /\ clean_fn = "none"
  /\ clean_in = None
  /\ clean_has_nltk = TRUE
  /\ clean_fail = "none"
  /\ clean_out = NoResult
  /\ trunc_fn = "none"
  /\ trunc_text = <<>>
  /\ trunc_max_tokens = 0
  /\ trunc_out = None
  /\ url_df = <<None>>
  /\ url_col_ok = TRUE
  /\ url_region = "us"
  /\ url_pc = "idle"
  /\ url_result = <<>>
  /\ url_searched = <<>>
  /\ llm_text = <<>>
  /\ llm_col_ok = TRUE
  /\ llm_provider = "claude"
  /\ llm_has_key = TRUE
  /\ llm_has_pkg = TRUE
  /\ llm_pc = "idle"
  /\ llm_error = ""
  /\ llm_idx = 0
  /\ llm_depth = 0
  /\ llm_category = <<>>
  /\ llm_confidence = <<>>
  /\ llm_reasoning = <<>>
  /\ llm_calls = <<>>
  /\ llm_status = <<>>
  /\ llm_source = <<>>
  /\ llm_written = <<>>
  /\ llm_event = [kind |-> "none", row |-> 0, exc |-> ""]

SpecLegacy == InitLegacy /\ [][(pred_legacy)]_vars

\* two threads enter _load_model for one region; the cache is empty
InitRace ==
  /\ race_region \in DOMAIN MODEL_CONFIGS
  /\ race_pc = [t \in Threads |-> "start"]
  /\ race_chunk = [t \in Threads |-> 0]
  /\ race_file \in {[k \in {"model_file", "vectorizer_file"} |-> NoFile],
                     [k \in {"model_file", "vectorizer_file"} |-> ([exists |-> TRUE, chunks |-> 1..NumChunks])]}
  /\ race_cache = {}
  /\ race_net_failed = FALSE
  /\ parse_in = <<>>
  /\ parse_out = NoResult
  /\ frame_fn = "none"
  /\ frame_in = NoColumns
  /\ frame_heap = [df |-> NoColumns, result_df |-> NoColumns]
  /\ frame_out = NoResult
  /\ labelled_frames = FALSE
  /\ shim_kind = "none"
  /\ shim_orig = Missing
  /\ shim_obj = Missing
  /\ shim_once = Missing
  /\ shim_count = 0
  /\ legacy_model = [c \in LegacyClasses |-> "None"]
  /\ clean_fn = "none"
  /\ clean_in = None
  /\ clean_has_nltk = TRUE
  /\ clean_fail = "none"
  /\ clean_out = NoResult
  /\ trunc_fn = "none"
  /\ trunc_text = <<>>
  /\ trunc_max_tokens = 0
  /\ trunc_out = None
  /\ url_df = <<None>>
  /\ url_col_ok = TRUE
  /\ url_region = "us"
  /\ url_pc = "idle"
  /\ url_result = <<>>
  /\ url_searched = <<>>
  /\ fs = [f \in Files |-> "absent"]
  /\ _model_cache = {}
  /\ loads = [f \in Files |-> 0]
  /\ stat_calls = 0
  /\ all_ok = TRUE
  /\ stat_last = CallRecord("none", "", <<>>, TRUE)
  /\ llm_text = <<>>
  /\ llm_col_ok = TRUE
  /\ llm_provider = "claude"
  /\ llm_has_key = TRUE
  /\ llm_has_pkg = TRUE
  /\ llm_pc = "idle"
  /\ llm_error = ""
  /\ llm_idx = 0
  /\ llm_depth = 0
  /\ llm_category = <<>>
  /\ llm_confidence = <<>>
  /\ llm_reasoning = <<>>
  /\ llm_calls = <<>>
  /\ llm_status = <<>>
  /\ llm_source = <<>>
  /\ llm_written = <<>>
  /\ llm_event = [kind |-> "none", row |-> 0, exc |-> ""]

SpecRace == InitRace /\ [][NextRace]_vars

\* an object as joblib.load returned it, before any shim
InitShim ==
  /\ shim_kind \in {"model", "calibrator", "vectorizer"}
  /\ shim_orig \in (IF shim_kind = "model" THEN ShimModels
                     ELSE IF shim_kind = "calibrator" THEN Calibrators
                     ELSE ShimVectorizers)
  /\ shim_obj = shim_orig
  /\ shim_once = Missing
  /\ shim_count = 0
  /\ parse_in = <<>>
  /\ parse_out = NoResult
  /\ frame_fn = "none"
  /\ frame_in = NoColumns
  /\ frame_heap = [df |-> NoColumns, result_df |-> NoColumns]
  /\ frame_out = NoResult
  /\ labelled_frames = FALSE
  /\ race_region = "us"
  /\ race_pc = [t \in Threads |-> "done"]
  /\ race_chunk = [t \in Threads |-> 0]
  /\ race_file = [k \in {"model_file", "vectorizer_file"} |-> NoFile]
  /\ race_cache = {}
  /\ race_net_failed = FALSE
  /\ legacy_model = [c \in LegacyClasses |-> "None"]
  /\ clean_fn = "none"
  /\ clean_in = None
  /\ clean_has_nltk = TRUE
  /\ clean_fail = "none"
  /\ clean_out = NoResult
  /\ trunc_fn = "none"
  /\ trunc_text = <<>>
  /\ trunc_max_tokens = 0
  /\ trunc_out = None
  /\ url_df = <<None>>
  /\ url_col_ok = TRUE
  /\ url_region = "us"
  /\ url_pc = "idle"
  /\ url_result = <<>>
  /\ url_searched = <<>>
  /\ fs = [f \in Files |-> "absent"]
  /\ _model_cache = {}
  /\ loads = [f \in Files |-> 0]
  /\ stat_calls = 0
  /\ all_ok = TRUE
  /\ stat_last = CallRecord("none", "", <<>>, TRUE)
  /\ llm_text = <<>>
  /\ llm_col_ok = TRUE
  /\ llm_provider = "claude"
  /\ llm_has_key = TRUE
  /\ llm_has_pkg = TRUE
  /\ llm_pc = "idle"
  /\ llm_error = ""
  /\ llm_idx = 0
  /\ llm_depth = 0
  /\ llm_category = <<>>
  /\ llm_confidence = <<>>
  /\ llm_reasoning = <<>>
  /\ llm_calls = <<>>
  /\ llm_status = <<>>
  /\ llm_source = <<>>
  /\ llm_written = <<>>
  /\ llm_event = [kind |-> "none", row |-> 0, exc |-> ""]

SpecShim == InitShim /\ [][(apply_shims)]_vars

\* a fresh process whose callers pass frames with any index labels
InitIndex ==
  /\ fs \in {[f \in Files |-> "absent"], [f \in Files |-> "ok"]}
  /\ _model_cache = {}
  /\ loads = [f \in Files |-> 0]
  /\ stat_calls = 0
  /\ all_ok = TRUE
  /\ stat_last = CallRecord("none", "", <<>>, TRUE)
  /\ labelled_frames = TRUE
  /\ parse_in = <<>>
  /\ parse_out = NoResult
  /\ frame_fn = "none"
  /\ frame_in = NoColumns
  /\ frame_heap = [df |-> NoColumns, result_df |-> NoColumns]
  /\ frame_out = NoResult
  /\ shim_kind = "none"
  /\ shim_orig = Missing
  /\ shim_obj = Missing
  /\ shim_once = Missing
  /\ shim_count = 0
  /\ race_region = "us"
  /\ race_pc = [t \in Threads |-> "done"]
  /\ race_chunk = [t \in Threads |-> 0]
  /\ race_file = [k \in {"model_file", "vectorizer_file"} |-> NoFile]
  /\ race_cache = {}
  /\ race_net_failed = FALSE
  /\ legacy_model = [c \in LegacyClasses |-> "None"]
  /\ clean_fn = "none"
  /\ clean_in = None
  /\ clean_has_nltk = TRUE
  /\ clean_fail = "none"
  /\ clean_out = NoResult
  /\ trunc_fn = "none"
  /\ trunc_text = <<>>
  /\ trunc_max_tokens = 0
  /\ trunc_out = None
  /\ url_df = <<None>>
  /\ url_col_ok = TRUE
  /\ url_region = "us"
  /\ url_pc = "idle"
  /\ url_result = <<>>
  /\ url_searched = <<>>
  /\ llm_text = <<>>
  /\ llm_col_ok = TRUE
  /\ llm_provider = "claude"
  /\ llm_has_key = TRUE
  /\ llm_has_pkg = TRUE
  /\ llm_pc = "idle"
  /\ llm_error = ""
  /\ llm_idx = 0
  /\ llm_depth = 0
  /\ llm_category = <<>>
  /\ llm_confidence = <<>>
  /\ llm_reasoning = <<>>
  /\ llm_calls = <<>>
  /\ llm_status = <<>>
  /\ llm_source = <<>>
  /\ llm_written = <<>>
  /\ llm_event = [kind |-> "none", row |-> 0, exc |-> ""]

SpecIndex == InitIndex /\ [][(predict_news_category)]_vars

\* one call of a unified function on a frame of the caller
InitFrame ==
  /\ frame_fn \in UnifiedFunctions
  /\ frame_in \in InputFrames(frame_fn)
  /\ frame_heap = [df |-> frame_in, result_df |-> NoColumns]
  /\ frame_out = NoResult
  /\ parse_in = <<>>
  /\ parse_out = NoResult
  /\ labelled_frames = FALSE
  /\ shim_kind = "none"
  /\ shim_orig = Missing
  /\ shim_obj = Missing
  /\ shim_once = Missing
  /\ shim_count = 0
  /\ race_region = "us"
  /\ race_pc = [t \in Threads |-> "done"]
  /\ race_chunk = [t \in Threads |-> 0]
  /\ race_file = [k \in {"model_file", "vectorizer_file"} |-> NoFile]
  /\ race_cache = {}
  /\ race_net_failed = FALSE
  /\ legacy_model = [c \in LegacyClasses |-> "None"]
  /\ clean_fn = "none"
  /\ clean_in = None
  /\ clean_has_nltk = TRUE
  /\ clean_fail = "none"
  /\ clean_out = NoResult
  /\ trunc_fn = "none"
  /\ trunc_text = <<>>
  /\ trunc_max_tokens = 0
  /\ trunc_out = None
  /\ url_df = <<None>>
  /\ url_col_ok = TRUE
  /\ url_region = "us"
  /\ url_pc = "idle"
  /\ url_result = <<>>
  /\ url_searched = <<>>
  /\ fs = [f \in Files |-> "absent"]
  /\ _model_cache = {}
  /\ loads = [f \in Files |-> 0]
  /\ stat_calls = 0
  /\ all_ok = TRUE
  /\ stat_last = CallRecord("none", "", <<>>, TRUE)
  /\ llm_text = <<>>
  /\ llm_col_ok = TRUE
  /\ llm_provider = "claude"
  /\ llm_has_key = TRUE
  /\ llm_has_pkg = TRUE
  /\ llm_pc = "idle"
  /\ llm_error = ""
  /\ llm_idx = 0
  /\ llm_depth = 0
  /\ llm_category = <<>>
  /\ llm_confidence = <<>>
  /\ llm_reasoning = <<>>
  /\ llm_calls = <<>>
  /\ llm_status = <<>>
  /\ llm_source = <<>>
  /\ llm_written = <<>>
  /\ llm_event = [kind |-> "none", row |-> 0, exc |-> ""]

SpecFrame == InitFrame /\ [][NextFrame]_vars

SpecUrl == InitUrl /\ [][NextUrl]_vars

SpecFailFast == InitFailFast /\ [][NextFailFast]_vars

SpecUrlCase == InitUrlCase /\ [][NextUrlCase]_vars

SpecParse == InitParse /\ [][(call_parse_llm_response)]_vars

SpecStat == InitStat /\ [][NextStat]_vars

\* classify_news is a sequential loop: a step that can be taken is taken
SpecLLM == InitLLM /\ [][NextLLM]_vars /\ WF_vars(NextLLM)

(***************************************************************************)
(* C1: after classify_by_url returns, every row's hard_news is 1 exactly   *)
(* when its URL is non-null and contains a hard-news term of the region    *)
(* and is null otherwise; likewise soft_news with the soft-news terms; a   *)
(* null URL gives (null, null) and no pattern search is run on it.         *)
(***************************************************************************)
Contains(s, t) == \E k \in 0..(Len(s) - Len(t)) : SubSeq(s, k + 1, k + Len(t)) = t

HasTerm(url, region, kind) == \E t \in URL_PATTERNS[region][kind] : Contains(url, t)

C1_UrlFlags ==
  url_pc = "returned" =>
    \A i \in 1..Len(url_df) :
      LET u == url_df[i]
          r == url_result[i]
      IN /\ r.hard_news \in {V(1), None}
         /\ r.soft_news \in {V(1), None}
         /\ (r.hard_news = V(1)) <=> (u # None /\ HasTerm(u.v, url_region, "hard_news"))
         /\ (r.soft_news = V(1)) <=> (u # None /\ HasTerm(u.v, url_region, "soft_news"))
         /\ (u = None) => (r.hard_news = None /\ r.soft_news = None /\ url_searched[i] = 0)

\* a returned batch that holds a hard-only URL next to a soft-only URL, a URL
\* with both kinds of term, a URL with neither, or a null URL
HardOnly == [hard_news |-> V(1), soft_news |-> None]
SoftOnly == [hard_news |-> None, soft_news |-> V(1)]
BothFlags == [hard_news |-> V(1), soft_news |-> V(1)]
NoFlags == [hard_news |-> None, soft_news |-> None]

C1_Witness ==
  /\ url_pc = "returned"
  /\ Len(url_df) = 2
  /\ url_result[1] = BothFlags
  /\ url_region = "uk"
  /\ url_df[2] = None
  /\ url_result[2] = NoFlags
(***************************************************************************)
(* C2: when predict_soft_news returns for a batch, the rows whose text is  *)
(* null were not passed to the vectorizer or to the classifier and their   *)
(* probability is null; the rows with text have a probability.             *)
(***************************************************************************)
SoftCall == stat_last.op = "predict_soft_news"
CategoryCall == stat_last.op = "predict_news_category"
SoftColumn == stat_last.columns[ProbColumn[stat_last.arg]]

C2_NullRowsNotSent ==
  (SoftCall /\ stat_last.outcome = "returned" /\ ~stat_last.proba_raised) =>
    \A i \in 1..Len(stat_last.df) :
      IF isna(stat_last.df[i])
        THEN /\ i \notin stat_last.sent_vec
             /\ i \notin stat_last.sent_model
             /\ SoftColumn[i] = None
        ELSE SoftColumn[i] # None

(***************************************************************************)
(* C3: when predict_proba raises, predict_soft_news returns normally with  *)
(* the probability column null in every row; and whenever it returns, the  *)
(* column is filled for every row sent to the model or null for all rows.  *)
(***************************************************************************)
C3_BatchFailureBoundary ==
  SoftCall =>
    /\ stat_last.proba_raised =>
          /\ stat_last.outcome = "returned"
          /\ DOMAIN stat_last.columns = {ProbColumn[stat_last.arg]}
          /\ \A i \in 1..Len(stat_last.df) : SoftColumn[i] = None
    /\ stat_last.outcome = "returned" =>
          /\ Len(SoftColumn) = Len(stat_last.df)
          /\ \/ \A i \in stat_last.sent_model : SoftColumn[i] # None
             \/ \A i \in 1..Len(stat_last.df) : SoftColumn[i] = None

\* predict_proba raised on a batch of two rows that were both sent to the model
C3_Witness ==
  /\ SoftCall
  /\ stat_last.proba_raised
  /\ Len(stat_last.df) = 2
  /\ stat_last.sent_model = {1, 2}

(***************************************************************************)
(* C4: when the vectorizer raises on transform, predict_soft_news and      *)
(* predict_news_category return normally, with their result columns        *)
(* present and holding null or the fallback constants in every row.        *)
(***************************************************************************)
ExpectedColumns ==
  IF SoftCall THEN {ProbColumn[stat_last.arg]} ELSE {"pred_category", "prob_soft_news"}

C4_VectorizerFailureContained ==
  ((SoftCall \/ CategoryCall) /\ stat_last.vec_raised) =>
    /\ stat_last.outcome = "returned"
    /\ DOMAIN stat_last.columns = ExpectedColumns
    /\ \A c \in ExpectedColumns : \A i \in 1..Len(stat_last.df) :
          stat_last.columns[c][i] \in {None, V("Other"), V(50)}

(***************************************************************************)
(* C9: over any sequence of successful predict_soft_news and               *)
(* predict_news_category calls, no artifact file is deserialized more than *)
(* once, and a region that was loaded is in the cache.                     *)
(***************************************************************************)
C9_LoadedAtMostOnce ==
  all_ok => \A f \in Files : loads[f] <= 1

(***************************************************************************)
(* C10: when fetching an artifact fails, the load raises to its caller,    *)
(* no download was tried twice, nothing was deserialized and the key has   *)
(* no cache entry.                                                         *)
(***************************************************************************)
NoRetry(tried) == \A i, j \in 1..Len(tried) : tried[i] = tried[j] => i = j

C10_FetchFailureRaises ==
  stat_last.fetch_failed =>
    /\ stat_last.outcome = "raised"
    /\ NoRetry(stat_last.tried)
    /\ stat_last.deser = 0
    /\ SoftCall => stat_last.arg \notin _model_cache

(***************************************************************************)
(* C5: every row with text ends as classified or failed and classify_news  *)
(* returns; a classified row holds the three fields of one parsed provider *)
(* result, a failed row holds three nulls, no row ever has only some of    *)
(* its three columns written, and a row that is classified or failed is    *)
(* not touched again.                                                      *)
(***************************************************************************)
LlmRows == 1..Len(llm_text)
Terminal(status) == status \in {"classified", "failed"}
LlmRunning == llm_pc \in {"loop", "returned"}

RowConsistent(i) ==
  /\ llm_written[i] \in {{}, ResultColumns}
  /\ llm_status[i] = "classified" =>
        /\ llm_written[i] = ResultColumns
        /\ llm_source[i].error = ""
        /\ llm_category[i] = V(llm_source[i].category)
        /\ llm_confidence[i] = V(llm_source[i].confidence)
        /\ llm_reasoning[i] = str_cell(llm_source[i].reasoning)
  /\ llm_status[i] # "classified" =>
        /\ llm_written[i] = {}
        /\ llm_category[i] = None
        /\ llm_confidence[i] = None
        /\ llm_reasoning[i] = None

AllRowsTerminal == \A i \in LlmRows : ~isna(llm_text[i]) => Terminal(llm_status[i])

C7_AtMostTwoCalls ==
  \A i \in DOMAIN llm_calls : llm_calls[i] <= 2

(***************************************************************************)
(* C8: every llm_category that classify_news writes is a key of the        *)
(* taxonomy and every llm_confidence it writes is a number in [0,1].       *)
(***************************************************************************)
C8_ResultDomain ==
  LlmRunning =>
    \A i \in LlmRows :
      /\ llm_category[i] # None => llm_category[i].v \in Keys(DEFAULT_CATEGORIES)
      /\ llm_confidence[i] # None =>
            /\ llm_confidence[i].v.t = "num"
            /\ llm_confidence[i].v.n >= 0
            /\ llm_confidence[i].v.n <= 100

(***************************************************************************)
(* C15: for every response text that lacks the confidence field (the       *)
(* document given to the JSON parser is not an object holding that field), *)
(* _parse_llm_response does not raise and returns confidence 0.5 and a     *)
(* category that is a key of the taxonomy.                                 *)
(***************************************************************************)
JsonDocument(text) == strip_fences(text)

HasConfidenceField(text) ==
  LET t == JsonDocument(text)
  IN /\ Len(t) = 1
     /\ t[1].k = "json"
     /\ t[1].kind = "object"
     /\ t[1].confidence # JAbsentConf

Parsed == parse_out # NoResult

C15_MissingConfidenceFallback ==
  (Parsed /\ ~HasConfidenceField(parse_in)) =>
     /\ parse_out.error = ""
     /\ parse_out.confidence = Num(50)
     /\ parse_out.category \in Keys(DEFAULT_CATEGORIES)

(***************************************************************************)
(* C16: for a response that is a JSON object with its three fields and a   *)
(* numeric confidence below 0 or above 1, _parse_llm_response does not     *)
(* raise and returns the confidence clamped to the nearest boundary: 0.0   *)
(* for a value below 0, 1.0 for a value above 1.                           *)
(***************************************************************************)
OutOfRangeObject(text) ==
  LET t == JsonDocument(text)
  IN /\ Len(t) = 1
     /\ t[1].k = "json"
     /\ t[1].kind = "object"
     /\ t[1].category \notin {Absent, JList}
     /\ t[1].reasoning # Absent
     /\ t[1].confidence.j = "number"
     /\ \/ float_lt(t[1].confidence.f, Num(0))
        \/ float_lt(Num(100), t[1].confidence.f)

LlmStarted == llm_pc \in {"loop", "returned", "raised"}

NothingProcessed ==
  /\ \A i \in LlmRows : llm_calls[i] = 0 /\ llm_written[i] = {} /\ llm_status[i] = "pending"
  /\ llm_category = <<>>
  /\ llm_confidence = <<>>
  /\ llm_reasoning = <<>>

C12_ValidationOrder ==
  /\ (LlmStarted /\ ~llm_col_ok) =>
        llm_pc = "raised" /\ llm_error = "ValueError: not found"
  /\ (LlmStarted /\ llm_col_ok /\ llm_provider \notin {"claude", "openai"}) =>
        llm_pc = "raised" /\ llm_error = "ValueError: Unsupported provider"
  /\ (LlmStarted /\ llm_col_ok /\ llm_provider \in {"claude", "openai"} /\ ~llm_has_key) =>
        llm_pc = "raised" /\ llm_error = "ValueError: No API key"
  /\ (LlmStarted /\ llm_col_ok /\ llm_provider \in {"claude", "openai"} /\ llm_has_key) =>
        llm_pc # "raised" /\ llm_error = ""
  /\ llm_pc = "raised" => NothingProcessed

\* an unsupported provider and no API key, on a batch that has a row to classify
C12_Witness ==
  /\ llm_pc = "raised"
  /\ llm_error = "ValueError: Unsupported provider"
  /\ llm_provider = "gemini"
  /\ ~llm_has_key
  /\ \E i \in LlmRows : ~isna(llm_text[i])

(***************************************************************************)
(* C18: when classify_news returns, a row with null text has had no        *)
(* provider call and its three result cells are null, and the number of    *)
(* rows the provider was called for equals the number of rows with         *)
(* non-null text.                                                          *)
(***************************************************************************)
RowsCalled == {i \in LlmRows : llm_calls[i] > 0}
RowsWithText == {i \in LlmRows : ~isna(llm_text[i])}

C18_NullRowsSkipped ==
  llm_pc = "returned" =>
     /\ \A i \in LlmRows \ RowsWithText :
           /\ llm_calls[i] = 0
           /\ llm_category[i] = None
           /\ llm_confidence[i] = None
           /\ llm_reasoning[i] = None
     /\ Cardinality(RowsCalled) = Cardinality(RowsWithText)

(***************************************************************************)
(* C20: with a valid configuration, a row to classify and the provider's   *)
(* client package not installed, classify_news ends by raising ImportError *)
(* to its caller, never by returning a result.                             *)
(***************************************************************************)
C20_ImportErrorRaised ==
  ( /\ llm_pc \in {"returned", "raised"}
    /\ llm_col_ok /\ llm_provider \in Providers /\ llm_has_key
    /\ ~llm_has_pkg
    /\ RowsWithText # {} ) =>
     llm_pc = "raised" /\ llm_error = "ImportError"

(***************************************************************************)
(* C13: when no row of the batch has non-null text, predict_soft_news (for *)
(* a supported region) and predict_news_category return the batch with     *)
(* their result columns present and all null, and no artifact is           *)
(* downloaded or deserialized and no row is given to a model.              *)
(***************************************************************************)
ValidCall ==
  /\ SoftCall \/ CategoryCall
  /\ stat_last.col_ok
  /\ SoftCall => stat_last.arg \in DOMAIN MODEL_CONFIGS

C13_ShortCircuit ==
  (ValidCall /\ ~any_valid(stat_last.df)) =>
     /\ stat_last.outcome = "returned"
     /\ DOMAIN stat_last.columns = ExpectedColumns
     /\ \A c \in ExpectedColumns : \A i \in 1..Len(stat_last.df) :
           stat_last.columns[c][i] = None
     /\ stat_last.tried = <<>>
     /\ stat_last.deser = 0
     /\ stat_last.sent_vec = {}
     /\ stat_last.sent_model = {}

(***************************************************************************)
(* C19: every probability predict_soft_news or predict_news_category       *)
(* writes lies in [0,1] (0..100 in percent).  For the category model the   *)
(* class probabilities of a row sum to 1, prob_soft_news is the sum over   *)
(* the ten soft categories and so is at most that total, and the fallback  *)
(* written after a failure is 0.5.                                         *)
(***************************************************************************)
SoftSubset ==
  {"Arts", "Books", "Classifieds", "Dining", "Leisure", "Obits", "Other",
   "Real Estate", "Style", "Travel"}

InUnitRange(cell) == cell = None \/ cell.v \in 0..100

Predicted ==
  /\ stat_last.outcome = "returned"
  /\ stat_last.sent_model # {}
  /\ ~stat_last.proba_raised

Flag(b) == IF b THEN V(1) ELSE None

C14_CaseInsensitive ==
  /\ url_pc = "returned" =>
        \A i \in 1..Len(url_df) :
           ~isna(url_df[i]) =>
             /\ url_result[i].hard_news =
                   Flag(HasTerm(str_lower(url_df[i].v), url_region, "hard_news"))
             /\ url_result[i].soft_news =
                   Flag(HasTerm(str_lower(url_df[i].v), url_region, "soft_news"))
  /\ (url_pc = "legacy_returned" /\ url_result # <<>> /\ url_region \in Regions) =>
        \A i \in 1..Len(url_df) :
           ~isna(url_df[i]) =>
             /\ url_result[i].hard_lab =
                   Flag(HasTerm(str_lower(url_df[i].v), url_region, "hard_news"))
             /\ url_result[i].soft_lab =
                   Flag(HasTerm(str_lower(url_df[i].v), url_region, "soft_news"))

(***************************************************************************)
(* C11: classify_by_url and predict_soft_news, called with a region other  *)
(* than us / uk or with a column the frame does not have, raise ValueError *)
(* with no row processed, no result column produced, and no artifact       *)
(* downloaded, deserialized or cached; with a valid configuration they do  *)
(* not raise ValueError.                                                   *)
(***************************************************************************)
UrlCalled == url_pc \in {"returned", "raised"}
UrlBadConfig == ~url_col_ok \/ url_region \notin {"us", "uk"}
SoftBadConfig == ~stat_last.col_ok \/ stat_last.arg \notin {"us", "uk"}

C11_FailFast ==
  /\ [](UrlCalled =>
          /\ UrlBadConfig <=> url_pc = "raised"
          /\ url_pc = "raised" =>
                /\ url_result = <<>>
                /\ url_searched = <<>>
                /\ _model_cache = {}
                /\ \A f \in Files : loads[f] = 0 /\ fs[f] = "absent")
  /\ [](SoftCall =>
          /\ SoftBadConfig <=> stat_last.error = "ValueError"
          /\ SoftBadConfig =>
                /\ stat_last.outcome = "raised"
                /\ stat_last.columns = NoColumns
                /\ stat_last.sent_vec = {}
                /\ stat_last.sent_model = {}
                /\ stat_last.tried = <<>>
                /\ stat_last.deser = 0
                /\ ~stat_last.fetch_failed)
  /\ [][(stat_calls' # stat_calls /\ stat_last'.error = "ValueError") =>
          /\ fs' = fs
          /\ _model_cache' = _model_cache
          /\ loads' = loads]_vars

\* an unsupported region, on a batch with a text row, while the artifacts are
\* still to be downloaded
C11_Witness ==
  /\ SoftCall
  /\ stat_last.arg = "fr"
  /\ stat_last.col_ok
  /\ any_valid(stat_last.df)
  /\ stat_last.outcome = "raised"
  /\ stat_last.error = "ValueError"
  /\ \A f \in Files : fs[f] = "absent"

(***************************************************************************)
(* C21: a truncation function returns a text of at most 4*max_tokens       *)
(* characters unchanged; a longer text is returned ending with "..." and   *)
(* strictly shorter than the input.                                        *)
(***************************************************************************)
Truncated == trunc_out # None

EndsWithEllipsis(s) == Len(s) >= 3 /\ SubSeq(s, Len(s) - 2, Len(s)) = <<".", ".", ".">>

C21_TruncationShortens ==
  Truncated =>
     IF Len(trunc_text) <= 4 * trunc_max_tokens
       THEN trunc_out.v = trunc_text
       ELSE /\ EndsWithEllipsis(trunc_out.v)
            /\ Len(trunc_out.v) < Len(trunc_text)

(***************************************************************************)
(* C24: for a text longer than the window of 4*max_tokens characters, each *)
(* of the three truncation functions keeps the prefix ending at the later  *)
(* of the last period and the last newline of the window when that         *)
(* boundary lies in the final 20% of the window, and otherwise the whole   *)
(* window; "..." is appended in both cases.                                *)
(***************************************************************************)
LastBoundary(window) ==
  LET ps == {i \in 1..Len(window) : window[i] \in {".", "\n"}}
  IN IF ps = {} THEN 0 ELSE CHOOSE i \in ps : \A j \in ps : j <= i

C24_BoundaryRule ==
  (Truncated /\ Len(trunc_text) > 4 * trunc_max_tokens) =>
     LET window == SubSeq(trunc_text, 1, 4 * trunc_max_tokens)
         b == LastBoundary(window)
         kept == IF b > 0 /\ 5 * (b - 1) > 4 * (4 * trunc_max_tokens)
                   THEN SubSeq(window, 1, b) ELSE window
     IN trunc_out.v = kept \o <<".", ".", ".">>

(***************************************************************************)
(* C22: when the reply is a well-formed object whose category is not a key *)
(* of the taxonomy, the returned category is the first taxonomy key, in    *)
(* declaration order, that occurs case-insensitively in the raw response   *)
(* text, and the first declared key only when no key occurs in it.         *)
(***************************************************************************)
InvalidCategoryReply(text) ==
  LET t == JsonDocument(text)
  IN /\ Len(t) = 1
     /\ t[1].k = "json"
     /\ t[1].kind = "object"
     /\ t[1].category \notin {Absent, JNull, JList}
     /\ t[1].category \notin Keys(DEFAULT_CATEGORIES)
     /\ t[1].reasoning # Absent
     /\ t[1].confidence.j = "number"

KeyFoundIn(text) ==
  first_key_in(DEFAULT_CATEGORIES, 1, UNION {Words(text[i]) : i \in 1..Len(text)})

C22_InvalidCategorySearch ==
  (Parsed /\ InvalidCategoryReply(parse_in)) =>
     /\ parse_out.error = ""
     /\ parse_out.category =
           IF KeyFoundIn(parse_in) # Absent
             THEN KeyFoundIn(parse_in) ELSE DEFAULT_CATEGORIES[1]

(***************************************************************************)
(* C23: clean_text never raises, and when a step of the pipeline fails it  *)
(* returns the original input unchanged, with no earlier step applied to   *)
(* it, or the empty string when the input was null.                        *)
(***************************************************************************)
Cleaned == clean_out # NoResult

StepFailed ==
  /\ clean_fail \in {"tokenize", "stopwords"}
  /\ clean_fn = "utils" => clean_has_nltk

C23_CleanTextFallback ==
  Cleaned =>
     /\ ~clean_out.raised
     /\ StepFailed =>
           clean_out.value = IF isna(clean_in) THEN V(<<>>) ELSE clean_in

(***************************************************************************)
(* C25: a legacy predictor called with latest = True on a frame that has   *)
(* the column and a text downloads the classifier again, whatever calls    *)
(* were made before it in the process.                                     *)
(***************************************************************************)
LegacyLatestCall ==
  /\ stat_last.op = "pred_legacy"
  /\ stat_last.latest
  /\ stat_last.col_ok
  /\ any_valid(stat_last.df)

C25_LatestRedownloads ==
  LegacyLatestCall =>
     /\ stat_last.tried # <<>>
     /\ stat_last.tried[1] = LEGACY_CONFIGS[stat_last.arg].model_file

(***************************************************************************)
(* C26: when two callers load the same region concurrently on a cold cache *)
(* and no download fails, both get a complete pair and the cache ends with *)
(* the entry of the region.                                                *)
(***************************************************************************)
BothFinished == \A t \in Threads : race_pc[t] \in {"done", "raised"}

C26_HarmlessRace ==
  (BothFinished /\ ~race_net_failed) =>
     /\ \A t \in Threads : race_pc[t] = "done"
     /\ race_cache = {race_region}

(***************************************************************************)
(* C27: the compatibility shims are idempotent: a second application       *)
(* leaves the object as the first left it, an attribute the deserialized   *)
(* object already had keeps its value, and an object of another type is    *)
(* left alone.                                                             *)
(***************************************************************************)
\* the attributes of r that are present keep their values in s
KeepsAttrs(r, s, names) == \A a \in names : has(r[a]) => s[a] = r[a]

CalibratorAttrs == {"_necessary_X_", "X_thresholds_", "_necessary_y_", "y_thresholds_", "f_"}

KeepsCalibrator(r, s) == KeepsAttrs(r, s, CalibratorAttrs)

KeepsClf(r, s) ==
  /\ KeepsAttrs(r, s, {"base_estimator", "estimator", "calibrators_", "calibrators"})
  /\ \A i \in 1..Len(r.heap) : KeepsCalibrator(r.heap[i], s.heap[i])

KeepsModel(r, s) ==
  /\ KeepsAttrs(r, s, {"base_estimator", "estimator"})
  /\ has(r.calibrated_classifiers_) =>
        /\ has(s.calibrated_classifiers_)
        /\ Len(s.calibrated_classifiers_.v) = Len(r.calibrated_classifiers_.v)
        /\ \A i \in 1..Len(r.calibrated_classifiers_.v) :
              KeepsClf(r.calibrated_classifiers_.v[i], s.calibrated_classifiers_.v[i])

TransformerAttrs == {"idf_", "vocabulary_", "norm", "sublinear_tf"}

KeepsVectorizer(r, s) ==
  /\ KeepsAttrs(r, s, TransformerAttrs)
  /\ has(r._tfidf) =>
        IF r._tfidf.is_transformer
          THEN KeepsAttrs(r._tfidf, s._tfidf, TransformerAttrs)
          ELSE s._tfidf = r._tfidf

NothingOverwritten ==
  IF shim_kind = "model" THEN KeepsModel(shim_orig, shim_obj)
  ELSE IF shim_kind = "calibrator" THEN KeepsCalibrator(shim_orig, shim_obj)
  ELSE KeepsVectorizer(shim_orig, shim_obj)

ShimApplicable ==
  IF shim_kind = "model" THEN shim_orig.calibrated
  ELSE IF shim_kind = "calibrator" THEN shim_orig.isotonic
  ELSE shim_orig.is_vectorizer

C27_ShimsIdempotent ==
  shim_count > 0 =>
     /\ shim_count = 2 => shim_obj = shim_once
     /\ NothingOverwritten
     /\ ~ShimApplicable => shim_obj = shim_orig

\* the shims ran twice over an object they had changed the first time
C27_Witness ==
  /\ shim_count = 2
  /\ shim_once # shim_orig

(***************************************************************************)
(* C29: predict_news_category keeps results attached to their rows: for    *)
(* every row, pred_category is the prediction made from that row's text    *)
(* and prob_soft_news is the sum of that row's soft-category               *)
(* probabilities, whatever index labels the input frame carries.           *)
(***************************************************************************)
C29_ResultsAttached ==
  (CategoryCall /\ Predicted) =>
     \A i \in 1..Len(stat_last.df) :
        LET doc == category_text_data(stat_last.df)[i]
        IN /\ stat_last.columns["pred_category"][i] = V(category_predict[doc])
           /\ stat_last.columns["prob_soft_news"][i] = V(soft_sum[doc])

(***************************************************************************)
(* C30: row independence of predict_soft_news.  When two successive calls  *)
(* for the same region both predict, a row of the first batch and a row of *)
(* the second batch that hold the same text get the same probability,      *)
(* whatever the other rows of the two batches are.                         *)
(***************************************************************************)
SoftPredicted(rec) ==
  /\ rec.op = "predict_soft_news"
  /\ rec.outcome = "returned"
  /\ rec.sent_model # {}
  /\ ~rec.proba_raised

FrameCalled == frame_out # NoResult

C28_InputPreserved ==
  FrameCalled =>
     /\ frame_heap.df = frame_in
     /\ frame_out.outcome = "returned" =>
           LET result == frame_heap[frame_out.ref]
           IN /\ DOMAIN frame_in \subseteq DOMAIN result
              /\ \A name \in DOMAIN frame_in : result[name] = frame_in[name]
              /\ DOMAIN result \ DOMAIN frame_in \subseteq Appended(frame_fn)

====
